---- MODULE Spec2Model ----
(***************************************************************************)
(* Model of the Zabbix -> Telegram webhook relay: the HTTP handler         *)
(* (internal/handler/handler.go), the message store (internal/store) and   *)
(* the Telegram transport (internal/bot/bot.go).                           *)
(*                                                                         *)
(* Strings are sequences of one-character strings, so that escapeHTML and  *)
(* strings.ToUpper can be computed; "" is <<>>.                            *)
(***************************************************************************)
EXTENDS Integers, Sequences, FiniteSets, TLC

\* ------------------------------------------------------------------ bounds
\* Number of HTTP requests a behaviour receives.
MaxRequests == 3
\* Last value of the wall clock, in ticks.
MaxClock == 2

\* The store calls one behaviour of the store on its own makes.
MaxStoreCalls == 3

\* The goroutines that share one MessageStore.
MaxLockWorkers == 3

\* The length of the texts a function called on its own is given.
MaxLen == 3

\* The requests served where termination is checked.
MaxLiveRequests == 2

\* ------------------------------------------------------- program constants
\* The time layout "2006-01-02 15:04:05 MST" has a resolution of one second;
\* the clock of the model ticks twice per second.
TicksPerSecond == 2

StatusOK == 200
StatusBadRequest == 400
StatusUnauthorized == 401
StatusMethodNotAllowed == 405
StatusInternalServerError == 500

StatusProblem == <<"P", "R", "O", "B", "L", "E", "M">>
StatusResolved == <<"R", "E", "S", "O", "L", "V", "E", "D">>

MethodPost == "POST"

\* ---------------------------------------------------------------- strings
Lower == <<"a","b","c","d","e","f","g","h","i","j","k","l","m",
           "n","o","p","q","r","s","t","u","v","w","x","y","z">>
Upper == <<"A","B","C","D","E","F","G","H","I","J","K","L","M",
           "N","O","P","Q","R","S","T","U","V","W","X","Y","Z">>

\* strings.ToUpper, one character
UpperChar(c) ==
  IF \E i \in 1..Len(Lower) : Lower[i] = c
  THEN Upper[CHOOSE i \in 1..Len(Lower) : Lower[i] = c]
  ELSE c

\* strings.ToUpper
ToUpper(s) == [i \in 1..Len(s) |-> UpperChar(s[i])]

\* strings.ReplaceAll(s, old, new) for a one-character old
RECURSIVE ReplaceAll(_, _, _)
ReplaceAll(s, old, new) ==
  IF s = <<>> THEN <<>>
  ELSE (IF Head(s) = old THEN new ELSE <<Head(s)>>) \o ReplaceAll(Tail(s), old, new)

\* escapeHTML that replaces & last.
escapeHTMLAmpLast(s) ==
  LET s1 == ReplaceAll(s, "<", <<"&","l","t",";">>)
      s2 == ReplaceAll(s1, ">", <<"&","g","t",";">>)
  IN  ReplaceAll(s2, "&", <<"&","a","m","p",";">>)

\* escapeHTML: & first, then < and >
escapeHTML(s) ==
  LET s1 == ReplaceAll(s, "&", <<"&","a","m","p",";">>)
      s2 == ReplaceAll(s1, "<", <<"&","l","t",";">>)
  IN  ReplaceAll(s2, ">", <<"&","g","t",";">>)

\* The decimal digits.
DigitChars == <<"0", "1", "2", "3", "4", "5", "6", "7", "8", "9">>
IsDigit(c) == \E d \in 1..Len(DigitChars) : DigitChars[d] = c
DigitValue(c) == (CHOOSE d \in 1..Len(DigitChars) : DigitChars[d] = c) - 1

\* An int written in decimal, as Format and Marshal write it.
RECURSIVE Digits(_)
Digits(n) ==
  IF n < Len(DigitChars) THEN << DigitChars[n + 1] >>
  ELSE Digits(n \div Len(DigitChars)) \o << DigitChars[(n % Len(DigitChars)) + 1] >>

\* now.Format(timeFormat): the formatted time is the decimal text of the
\* whole seconds of the instant; it is never the empty string.
FormatTime(t) == Digits(t \div TicksPerSecond)

statusEmoji(s) ==
  IF s = StatusProblem THEN "red"
  ELSE IF s = StatusResolved THEN "check"
  ELSE "info"

severityEmoji(sev) ==
  LET u == ToUpper(sev) IN
  IF u = <<"D","I","S","A","S","T","E","R">> THEN "skull"
  ELSE IF u = <<"H","I","G","H">> THEN "fire"
  ELSE IF u = <<"A","V","E","R","A","G","E">> THEN "bolt"
  ELSE IF u = <<"W","A","R","N","I","N","G">> THEN "warning"
  ELSE IF u = <<"I","N","F","O","R","M","A","T","I","O","N">> THEN "info"
  ELSE IF u = <<"N","O","T","_","C","L","A","S","S","I","F","I","E","D">> THEN "question"
  ELSE "unknown"

\* One line of the message: the literal prefix (glyph and bold label) and the
\* text embedded after it.
Line(glyph, label, value) == [glyph |-> glyph, label |-> label, value |-> value]

\* formatMessage that shows the preserved Details only when the alert has
\* none of its own.
formatMessageOwnFirst(a, now, startTime, origMessage) ==
  LET msg == IF a.Status = StatusResolved /\ a.Message = <<>>
             THEN origMessage ELSE a.Message
  IN  << Line(statusEmoji(a.Status), "Status", escapeHTML(a.Status)) >>
      \o (IF a.TriggerName # <<>>
          THEN << Line("bell", "Trigger", escapeHTML(a.TriggerName)) >> ELSE <<>>)
      \o (IF a.Host # <<>>
          THEN << Line("host", "Host", escapeHTML(a.Host)) >> ELSE <<>>)
      \o (IF a.Severity # <<>>
          THEN << Line(severityEmoji(a.Severity), "Severity", escapeHTML(a.Severity)) >>
          ELSE <<>>)
      \o (IF msg # <<>>
          THEN << Line("memo", "Details", escapeHTML(msg)) >> ELSE <<>>)
      \o (IF a.EventID # <<>>
          THEN << Line("id", "Event ID", escapeHTML(a.EventID)) >> ELSE <<>>)
      \o (IF a.Status = StatusResolved
          THEN (IF startTime # <<>>
                THEN << Line("clock1", "Start Time", startTime) >> ELSE <<>>)
               \o << Line("clock2", "End Time", FormatTime(now)) >>
          ELSE << Line("clock1", "Start Time", FormatTime(now)) >>)

\* formatMessage that writes the Event ID line before the Details line and
\* writes the Host line even when the alert names no host.
formatMessageOtherLayout(a, now, startTime, origMessage) ==
  LET msg == IF a.Status = StatusResolved /\ origMessage # <<>>
             THEN origMessage ELSE a.Message
  IN  << Line(statusEmoji(a.Status), "Status", escapeHTML(a.Status)) >>
      \o (IF a.TriggerName # <<>>
          THEN << Line("bell", "Trigger", escapeHTML(a.TriggerName)) >> ELSE <<>>)
      \o << Line("host", "Host", escapeHTML(a.Host)) >>
      \o (IF a.Severity # <<>>
          THEN << Line(severityEmoji(a.Severity), "Severity", escapeHTML(a.Severity)) >>
          ELSE <<>>)
      \o (IF a.EventID # <<>>
          THEN << Line("id", "Event ID", escapeHTML(a.EventID)) >> ELSE <<>>)
      \o (IF msg # <<>>
          THEN << Line("memo", "Details", escapeHTML(msg)) >> ELSE <<>>)
      \o (IF a.Status = StatusResolved
          THEN (IF startTime # <<>>
                THEN << Line("clock1", "Start Time", startTime) >> ELSE <<>>)
               \o << Line("clock2", "End Time", FormatTime(now)) >>
          ELSE << Line("clock1", "Start Time", FormatTime(now)) >>)

\* formatMessage: the message as the sequence of its lines.
formatMessage(a, now, startTime, origMessage) ==
  LET msg == IF a.Status = StatusResolved /\ origMessage # <<>>
             THEN origMessage ELSE a.Message
  IN  << Line(statusEmoji(a.Status), "Status", escapeHTML(a.Status)) >>
      \o (IF a.TriggerName # <<>>
          THEN << Line("bell", "Trigger", escapeHTML(a.TriggerName)) >> ELSE <<>>)
      \o (IF a.Host # <<>>
          THEN << Line("host", "Host", escapeHTML(a.Host)) >> ELSE <<>>)
      \o (IF a.Severity # <<>>
          THEN << Line(severityEmoji(a.Severity), "Severity", escapeHTML(a.Severity)) >>
          ELSE <<>>)
      \o (IF msg # <<>>
          THEN << Line("memo", "Details", escapeHTML(msg)) >> ELSE <<>>)
      \o (IF a.EventID # <<>>
          THEN << Line("id", "Event ID", escapeHTML(a.EventID)) >> ELSE <<>>)
      \o (IF a.Status = StatusResolved
          THEN (IF startTime # <<>>
                THEN << Line("clock1", "Start Time", startTime) >> ELSE <<>>)
               \o << Line("clock2", "End Time", FormatTime(now)) >>
          ELSE << Line("clock1", "Start Time", FormatTime(now)) >>)

\* ------------------------------------------------------------------ store
\* store.Entry as built at handler.go:92-97
Entry(messageID, startTime, message, severity) ==
  [MessageID |-> messageID, StartTime |-> startTime,
   Message |-> message, Severity |-> severity]

\* the zero Entry{}
NoEntry == Entry(0, <<>>, <<>>, <<>>)

\* Set that drops the write.
SetDropped(data, key, value) == data

\* Set that keeps the entry a key already has.
SetIfAbsent(data, key, value) ==
  [k \in DOMAIN data \cup {key} |-> IF k \in DOMAIN data THEN data[k] ELSE value]

\* Set that evicts every other entry, as a cache of one slot would.
SetEvicting(data, key, value) == [k \in {key} |-> value]

\* MessageStore.Set: s.data[key] = value
Set(data, key, value) ==
  [k \in DOMAIN data \cup {key} |-> IF k = key THEN value ELSE data[k]]

\* Get that reports every key as found.
GetAlwaysFound(data, key) ==
  [entry |-> IF key \in DOMAIN data THEN data[key] ELSE NoEntry, ok |-> TRUE]

\* MessageStore.Get: value, ok := s.data[key]
Get(data, key) ==
  IF key \in DOMAIN data
  THEN [entry |-> data[key], ok |-> TRUE]
  ELSE [entry |-> NoEntry, ok |-> FALSE]

\* Delete that removes nothing.
DeleteNothing(data, key) == data

\* Delete that empties the map.
DeleteAll(data, key) == [k \in {} |-> data[k]]

\* MessageStore.Delete: delete(s.data, key)
Delete(data, key) == [k \in DOMAIN data \ {key} |-> data[k]]

\* store.New(): make(map)
EmptyStore == [k \in {} |-> NoEntry]

\* -------------------------------------------------------------- RedisStore
\* json.Marshal of a string, character by character: the quote and the
\* backslash get a backslash, and <, > and & become <, >, &.
EscapeChar(c) ==
  IF c = "\"" THEN <<"\\", "\"">>
  ELSE IF c = "\\" THEN <<"\\", "\\">>
  ELSE IF c = "<" THEN <<"\\", "u", "0", "0", "3", "c">>
  ELSE IF c = ">" THEN <<"\\", "u", "0", "0", "3", "e">>
  ELSE IF c = "&" THEN <<"\\", "u", "0", "0", "2", "6">>
  ELSE <<c>>

RECURSIVE EscapeJSON(_)
EscapeJSON(s) ==
  IF s = <<>> THEN <<>> ELSE EscapeChar(Head(s)) \o EscapeJSON(Tail(s))

\* The JSON text of a string: the escaped characters between two quotes.
Quote(s) == <<"\"">> \o EscapeJSON(s) \o <<"\"">>

\* The character a \uXXXX escape stands for, <<>> when the model has none.
UnicodeChar(hex) ==
  IF hex = <<"0", "0", "3", "c">> THEN <<"<">>
  ELSE IF hex = <<"0", "0", "3", "e">> THEN <<">">>
  ELSE IF hex = <<"0", "0", "2", "6">> THEN <<"&">>
  ELSE <<>>

\* json.Unmarshal of the inside of a string: the characters, or an error on
\* a bare quote, a dangling backslash or an escape it does not know.
RECURSIVE UnescapeJSON(_)
UnescapeJSON(t) ==
  IF t = <<>> THEN [err |-> FALSE, s |-> <<>>]
  ELSE IF Head(t) = "\"" THEN [err |-> TRUE, s |-> <<>>]
  ELSE IF Head(t) # "\\"
       THEN LET rest == UnescapeJSON(Tail(t))
            IN  [err |-> rest.err, s |-> <<Head(t)>> \o rest.s]
  ELSE IF Len(t) < 2 THEN [err |-> TRUE, s |-> <<>>]
  ELSE IF t[2] \in {"\"", "\\"}
       THEN LET rest == UnescapeJSON(SubSeq(t, 3, Len(t)))
            IN  [err |-> rest.err, s |-> <<t[2]>> \o rest.s]
  ELSE IF t[2] = "u" /\ Len(t) >= 6 /\ UnicodeChar(SubSeq(t, 3, 6)) # <<>>
       THEN LET rest == UnescapeJSON(SubSeq(t, 7, Len(t)))
            IN  [err |-> rest.err, s |-> UnicodeChar(SubSeq(t, 3, 6)) \o rest.s]
  ELSE [err |-> TRUE, s |-> <<>>]

\* json.Unmarshal of a string's text.
Unquote(t) ==
  IF Len(t) < 2 \/ Head(t) # "\"" \/ t[Len(t)] # "\""
  THEN [err |-> TRUE, s |-> <<>>]
  ELSE UnescapeJSON(SubSeq(t, 2, Len(t) - 1))

\* json.Unmarshal of a number's text into an int.
RECURSIVE ParseDigits(_)
ParseDigits(t) ==
  IF t = <<>> THEN 0
  ELSE ParseDigits(SubSeq(t, 1, Len(t) - 1)) * 10 + DigitValue(t[Len(t)])

IsNumber(t) == t # <<>> /\ \A i \in 1..Len(t) : IsDigit(t[i])

\* One member of a JSON object: its name, whether its value is a number or
\* a string, and the value's text.
Member(name, kind, text) == [name |-> name, kind |-> kind, text |-> text]

\* The bytes of a JSON object, member after member.
JSONObject(members) == [json |-> TRUE, members |-> members]

\* Bytes that are not JSON.
NotJSON == [json |-> FALSE, members |-> <<>>]

\* Marshal that writes strings without escaping them.
MarshalUnescaped(entry) ==
  JSONObject(<< Member("MessageID", "number", Digits(entry.MessageID)),
                Member("StartTime", "string",
                       <<"\"">> \o entry.StartTime \o <<"\"">>),
                Member("Message", "string",
                       <<"\"">> \o entry.Message \o <<"\"">>),
                Member("Severity", "string",
                       <<"\"">> \o entry.Severity \o <<"\"">>) >>)

\* json.Marshal(entry): an object with one member for each field of Entry.
\* It returns no error for a struct of an int and three strings.
Marshal(entry) ==
  JSONObject(<< Member("MessageID", "number", Digits(entry.MessageID)),
                Member("StartTime", "string", Quote(entry.StartTime)),
                Member("Message", "string", Quote(entry.Message)),
                Member("Severity", "string", Quote(entry.Severity)) >>)

\* The members of the object that carry the given name.
Named(members, name) ==
  { i \in 1..Len(members) : members[i].name = name }

\* The value Unmarshal gives a string field: the zero value when the member
\* is absent, an error when it is no string.
StringField(members, name) ==
  IF Named(members, name) = {} THEN [err |-> FALSE, s |-> <<>>]
  ELSE LET m == members[CHOOSE i \in Named(members, name) :
                          \A j \in Named(members, name) : j <= i]
       IN  IF m.kind # "string" THEN [err |-> TRUE, s |-> <<>>]
           ELSE Unquote(m.text)

\* The value Unmarshal gives an int field.
IntField(members, name) ==
  IF Named(members, name) = {} THEN [err |-> FALSE, n |-> 0]
  ELSE LET m == members[CHOOSE i \in Named(members, name) :
                          \A j \in Named(members, name) : j <= i]
       IN  IF m.kind # "number" \/ ~IsNumber(m.text)
           THEN [err |-> TRUE, n |-> 0]
           ELSE [err |-> FALSE, n |-> ParseDigits(m.text)]

\* json.Unmarshal(data, &entry): an error for bytes that are not JSON or for
\* a member of the wrong type, else the entry the members spell.
Unmarshal(data) ==
  LET id  == IntField(data.members, "MessageID")
      st  == StringField(data.members, "StartTime")
      msg == StringField(data.members, "Message")
      sev == StringField(data.members, "Severity")
  IN  IF ~data.json \/ id.err \/ st.err \/ msg.err \/ sev.err
      THEN [err |-> TRUE, entry |-> NoEntry]
      ELSE [err |-> FALSE, entry |-> Entry(id.n, st.s, msg.s, sev.s)]

\* How a command sent to the server ends for the client: with the reply,
\* with an error before the server ran it, or with the context deadline
\* (redisOpTimeout) passing, which ends the client's wait whether or not
\* the server has run the command.
Reply(err, applied) == [err |-> err, applied |-> applied]
Healthy == Reply("none", TRUE)
Replies ==
  { Healthy, Reply("error", FALSE),
    Reply("timeout", FALSE), Reply("timeout", TRUE) }

\* The server's SET key data.
ServerSet(srv, key, data) ==
  [k \in DOMAIN srv \cup {key} |-> IF k = key THEN data ELSE srv[k]]

\* The server's DEL key.
ServerDel(srv, key) == [k \in DOMAIN srv \ {key} |-> srv[k]]

\* A server that holds no key.
EmptyServer == [k \in {} |-> NotJSON]

\* RedisSet that takes the write for done whatever the reply.
RedisSetAlways(srv, key, entry, reply) == ServerSet(srv, key, Marshal(entry))

\* RedisStore.Set: the server after the call, which returns nothing.
RedisSet(srv, key, entry, reply) ==
  IF reply.applied THEN ServerSet(srv, key, Marshal(entry)) ELSE srv

\* RedisGet that returns what it could read of a value that fails to
\* deserialize.
RedisGetKeepsCorrupt(srv, key, reply) ==
  IF reply.err # "none" THEN [entry |-> NoEntry, ok |-> FALSE]
  ELSE IF key \notin DOMAIN srv THEN [entry |-> NoEntry, ok |-> FALSE]
  ELSE [entry |-> Unmarshal(srv[key]).entry, ok |-> TRUE]

\* RedisStore.Get: (Entry{}, false) on an error, on redis.Nil and on a value
\* that does not deserialize, else (entry, true).
RedisGet(srv, key, reply) ==
  IF reply.err # "none" THEN [entry |-> NoEntry, ok |-> FALSE]
  ELSE IF key \notin DOMAIN srv THEN [entry |-> NoEntry, ok |-> FALSE]
  ELSE IF Unmarshal(srv[key]).err THEN [entry |-> NoEntry, ok |-> FALSE]
  ELSE [entry |-> Unmarshal(srv[key]).entry, ok |-> TRUE]

\* RedisDelete that removes every key.
RedisDeleteFlushes(srv, key, reply) ==
  IF reply.applied THEN EmptyServer ELSE srv

\* RedisStore.Delete: the server after the call, which returns nothing.
RedisDelete(srv, key, reply) ==
  IF reply.applied THEN ServerDel(srv, key) ELSE srv

\* ------------------------------------------------------------ sync.RWMutex
\* MessageStore.mu: the goroutine that holds the write lock (0: none), the
\* goroutines that hold the read lock, and those blocked in Lock.
Mutex(writer, readers, pending) ==
  [writer |-> writer, readers |-> readers, pending |-> pending]

\* The zero RWMutex.
FreeMutex == Mutex(0, {}, {})

\* CanLock that lets a writer in beside the holders of the lock.
CanLockAlways(m) == TRUE

\* Lock returns once no goroutine holds the lock.
CanLock(m) == m.writer = 0 /\ m.readers = {}

\* RLock returns once no goroutine holds the write lock or waits for it.
CanRLock(m) == m.writer = 0 /\ m.pending = {}

\* --------------------------------------------------------------- requests
\* The JSON keys of ZabbixAlert.
JSONKeys == {"trigger_id", "trigger_name", "status", "severity", "host",
             "event_id", "message", "secret"}

\* A request is its method and its body; a body is either malformed or a
\* JSON object, given as the function from the keys it carries to their
\* string values.
Request(method, wellFormed, object) ==
  [method |-> method, wellFormed |-> wellFormed, object |-> object]

EmptyObject == [k \in {} |-> <<>>]

\* The zero ZabbixAlert.
ZeroAlert ==
  [TriggerID |-> <<>>, TriggerName |-> <<>>, Status |-> <<>>, Severity |-> <<>>,
   Host |-> <<>>, EventID |-> <<>>, Message |-> <<>>, Secret |-> <<>>]

\* A key that the object does not carry leaves the zero value in the struct.
Field(object, key) == IF key \in DOMAIN object THEN object[key] ELSE <<>>

\* json.NewDecoder(r.Body).Decode(&alert)
Decode(body) ==
  IF ~body.wellFormed
  THEN [err |-> TRUE, alert |-> ZeroAlert]
  ELSE [err |-> FALSE,
        alert |-> [TriggerID   |-> Field(body.object, "trigger_id"),
                   TriggerName |-> Field(body.object, "trigger_name"),
                   Status      |-> Field(body.object, "status"),
                   Severity    |-> Field(body.object, "severity"),
                   Host        |-> Field(body.object, "host"),
                   EventID     |-> Field(body.object, "event_id"),
                   Message     |-> Field(body.object, "message"),
                   Secret      |-> Field(body.object, "secret")]]

\* ------------------------------------------------------------------ inputs
\* The goroutines that serve requests.
AllWorkers == {1, 2}

EventA == <<"1">>
EventB == <<"2">>
StatusOther == <<"O", "K">>
GoodSecret == <<"s">>
WrongSecret == <<"x">>

\* The JSON object that carries exactly the given <<key, value>> pairs.
Object(pairs) ==
  [k \in {p[1] : p \in pairs} |-> (CHOOSE p \in pairs : p[1] = k)[2]]

NoDetails == {}
DetailsHigh == {<<"severity", <<"H","i","g","h">> >>, <<"message", <<"a","<","b">> >>,
                <<"host", <<"h","&">> >>}
DetailsLow == {<<"severity", <<"l","o","w">> >>, <<"message", <<"c">> >>,
               <<"trigger_name", <<"t">> >>}

AlertPairs(eventID, status, details, secretPairs) ==
  {<<"event_id", eventID>>, <<"status", status>>} \cup details \cup secretPairs

WithSecret(x) == {<<"secret", x>>}

\* Alerts that carry the good secret, so that they pass the check of a
\* handler with or without a configured secret.
MainObjects ==
  { Object(AlertPairs(c[1], c[2], c[3], WithSecret(GoodSecret))) :
      c \in { <<EventA, StatusProblem, NoDetails>>,
              <<EventA, StatusProblem, DetailsHigh>>,
              <<EventA, StatusProblem, DetailsLow>>,
              <<EventA, StatusResolved, NoDetails>>,
              <<EventA, StatusResolved, DetailsLow>>,
              <<EventA, StatusOther, DetailsHigh>>,
              <<EventB, StatusProblem, DetailsHigh>>,
              <<EventB, StatusResolved, NoDetails>> } }

\* The same alert with the secret absent, empty or wrong.
SecretObjects ==
  { Object(AlertPairs(EventA, StatusProblem, NoDetails, sp)) :
      sp \in { {}, WithSecret(<<>>), WithSecret(WrongSecret) } }

\* Alerts without an event ID: the key absent (only trigger_id given, as the
\* tests post it) or empty, with a good, a wrong and no secret.
NoEventObjects ==
  { Object({<<"trigger_id", <<"7">> >>, <<"status", StatusProblem>>,
            <<"secret", GoodSecret>>}),
    Object(AlertPairs(<<>>, StatusResolved, NoDetails, WithSecret(WrongSecret))),
    Object({<<"status", StatusProblem>>}) }

Objects == MainObjects \cup SecretObjects \cup NoEventObjects

Requests ==
  { Request(MethodPost, TRUE, o) : o \in Objects }
  \cup { Request(MethodPost, FALSE, EmptyObject) }
  \cup { Request("GET", FALSE, EmptyObject),
         Request("GET", TRUE,
                 Object(AlertPairs(EventA, StatusProblem, NoDetails,
                                   WithSecret(GoodSecret)))) }

\* ------------------------------------------------------------------- state
VARIABLES
  secret,     \* Handler.secret
  store,      \* MessageStore.data
  sentMsgID,  \* the ID of the last message the chat holds
  clock,      \* the last reading of the wall clock, in ticks
  calls,      \* the transport calls made so far, in order
  hist,       \* the alerts that passed the checks, in order, with their response
  workers,    \* the goroutines that serve requests
  pc,         \* where each goroutine is in ServeHTTP
  cur,        \* the number (index in hist) of the request a goroutine serves
  req,        \* the request a goroutine serves
  alert,      \* ServeHTTP's local alert
  loc,        \* ServeHTTP's locals now, text, msgID and entry
  code,       \* the response status written by the goroutine's request
  pre,        \* the store when the request was received
  ops,        \* how many store and transport calls the request has made
  sops,       \* the store operations made so far, in order
  kind,       \* the Store implementation in use: "memory" or "redis"
  server,     \* the keys of the Redis server with their bytes
  trace,      \* the calls made on the store, with what they returned
  mu,         \* MessageStore.mu
  lpc,        \* where each goroutine that shares the MessageStore is
  got,        \* what Get returned to each of those goroutines
  input,      \* the arguments of a function called on its own
  output      \* what that call returned, NotCalled before the call

redisVars == <<kind, server, trace>>
lockVars == <<mu, lpc, got>>
callVars == <<input, output>>

\* No function has been called on its own.
NotCalled == <<>>

vars == <<secret, store, sentMsgID, clock, calls, hist, workers, pc, cur, req,
          alert, loc, code, pre, ops, sops, kind, server, trace, mu, lpc, got,
          input, output>>

\* The goroutines that share one MessageStore.
LockWorkers == 1..MaxLockWorkers

ZeroLocals == [now |-> 0, text |-> <<>>, msgID |-> 0, entry |-> NoEntry]
ZeroOps == [get |-> 0, set |-> 0, del |-> 0, send |-> 0, edit |-> 0]

\* The handler as main builds it, the wall clock reading t.
InitAt(ws, t) ==
  /\ secret \in {<<>>, GoodSecret}
  /\ store = EmptyStore
  /\ sentMsgID = 0
  /\ clock = t
  /\ calls = <<>>
  /\ hist = <<>>
  /\ workers = ws
  /\ pc = [w \in AllWorkers |-> "idle"]
  /\ cur = [w \in AllWorkers |-> 0]
  /\ req = [w \in AllWorkers |-> Request("GET", FALSE, EmptyObject)]
  /\ alert = [w \in AllWorkers |-> ZeroAlert]
  /\ loc = [w \in AllWorkers |-> ZeroLocals]
  /\ code = [w \in AllWorkers |-> 0]
  /\ pre = [w \in AllWorkers |-> EmptyStore]
  /\ ops = [w \in AllWorkers |-> ZeroOps]
  /\ sops = <<>>
  /\ server = EmptyServer
  /\ trace = <<>>
  /\ mu = FreeMutex
  /\ lpc = [w \in LockWorkers |-> "set"]
  /\ got = [w \in LockWorkers |-> [entry |-> NoEntry, ok |-> FALSE]]

\* The handler at the start of the clock.
InitHandler(ws) == InitAt(ws, 0)

\* The handler and its store, no function being called on its own.
InitWith(ws) == InitHandler(ws) /\ input = NotCalled /\ output = NotCalled

\* Requests handled one after the other by one goroutine.
Init == InitWith({1}) /\ kind = "memory"

\* --------------------------------------------------------------- transport
\* Bot.SendMessage: the ID Telegram assigned to the new message, or (0, err).
SendMessage(ok) == [msgID |-> IF ok THEN sentMsgID + 1 ELSE 0, err |-> ~ok]

\* The record of one transport call: the request that made it, the method,
\* the message ID returned (send) or passed (edit), and whether it succeeded.
Call(n, op, id, ok) == [req |-> n, op |-> op, id |-> id, ok |-> ok]

\* The record of one store operation: the request that made it, the method
\* and the key.
StoreOp(n, op, key) == [req |-> n, op |-> op, key |-> key]

\* A store method as goroutine w calls it with its alert's event ID.
Stored(w, op) ==
  /\ sops' = Append(sops, StoreOp(cur[w], op, alert[w].EventID))
  /\ ops' = [ops EXCEPT ![w][op] = @ + 1]

\* h.bot.SendMessage(text) as goroutine w calls it.
Sent(w, ok) ==
  /\ sentMsgID' = IF ok THEN SendMessage(ok).msgID ELSE sentMsgID
  /\ calls' = Append(calls, Call(cur[w], "send", SendMessage(ok).msgID, ok))
  /\ ops' = [ops EXCEPT ![w].send = @ + 1]

\* h.bot.EditMessage(messageID, text) as goroutine w calls it.
Edited(w, messageID, ok) ==
  /\ calls' = Append(calls, Call(cur[w], "edit", messageID, ok))
  /\ ops' = [ops EXCEPT ![w].edit = @ + 1]

\* ----------------------------------------------------------------- handler
\* CheckRequest that compares the secret before it looks at the event ID.
CheckRequestSecretFirst(r, configured) ==
  IF r.method # MethodPost THEN StatusMethodNotAllowed
  ELSE IF Decode(r).err THEN StatusBadRequest
  ELSE IF configured # <<>> /\ Decode(r).alert.Secret # configured
       THEN StatusUnauthorized
  ELSE IF Decode(r).alert.EventID = <<>> THEN StatusBadRequest
  ELSE 0

\* CheckRequest that lets a request without a secret through.
CheckRequestAcceptsNoSecret(r, configured) ==
  IF r.method # MethodPost THEN StatusMethodNotAllowed
  ELSE IF Decode(r).err THEN StatusBadRequest
  ELSE IF Decode(r).alert.EventID = <<>> THEN StatusBadRequest
  ELSE IF configured # <<>> /\ Decode(r).alert.Secret # <<>>
          /\ Decode(r).alert.Secret # configured
       THEN StatusUnauthorized
  ELSE 0

\* The checks of ServeHTTP before the switch: the status of the rejection, or
\* 0 when the request passes.
CheckRequest(r, configured) ==
  IF r.method # MethodPost THEN StatusMethodNotAllowed
  ELSE IF Decode(r).err THEN StatusBadRequest
  ELSE IF Decode(r).alert.EventID = <<>> THEN StatusBadRequest
  ELSE IF configured # <<>> /\ Decode(r).alert.Secret # configured
       THEN StatusUnauthorized
  ELSE 0

\* The alert variable after the checks: decoded only when the method passed.
DecodedAlert(r) == IF r.method # MethodPost THEN ZeroAlert ELSE Decode(r).alert

\* Branch whose default case is the PROBLEM case.
BranchDefaultProblem(status) ==
  IF status = StatusResolved THEN "resolved_get" ELSE "problem_send"

\* The branch of the switch on alert.Status.
Branch(status) ==
  IF status = StatusProblem THEN "problem_send"
  ELSE IF status = StatusResolved THEN "resolved_get"
  ELSE "info_send"

\* AfterChecks without the return that follows http.Error.
AfterChecksNoReturn(c, status) == Branch(status)

\* Where ServeHTTP goes after the checks: it returns when one failed.
AfterChecks(c, status) == IF c # 0 THEN "done" ELSE Branch(status)

\* The request's summary in hist; code 0 while it is being served.
Summary(a, c) == [EventID |-> a.EventID, Status |-> a.Status, code |-> c]

\* The response is written and ServeHTTP returns.
Respond(w, c) ==
  /\ pc' = [pc EXCEPT ![w] = "done"]
  /\ code' = [code EXCEPT ![w] = c]
  /\ hist' = [hist EXCEPT ![cur[w]].code = c]

\* time.Now(): the clock never runs backwards, and it is observed only here.
Now == clock..(IF clock < MaxClock THEN clock + 1 ELSE clock)

\* ServeHTTP from its entry to the switch (handler.go:60-85, 127).
Receive(w, r) ==
  /\ w \in workers
  /\ pc[w] \in {"idle", "done"}
  /\ Len(hist) < MaxRequests
  /\ LET c == CheckRequest(r, secret)
         a == DecodedAlert(r)
         b == AfterChecks(c, a.Status)
     IN  /\ req' = [req EXCEPT ![w] = r]
         /\ alert' = [alert EXCEPT ![w] = a]
         /\ code' = [code EXCEPT ![w] = c]
         /\ pre' = [pre EXCEPT ![w] = store]
         /\ ops' = [ops EXCEPT ![w] = ZeroOps]
         /\ IF b = "done"
            THEN /\ pc' = [pc EXCEPT ![w] = "done"]
                 /\ cur' = [cur EXCEPT ![w] = 0]
                 /\ loc' = [loc EXCEPT ![w] = ZeroLocals]
                 /\ UNCHANGED <<hist, clock>>
            ELSE /\ pc' = [pc EXCEPT ![w] = b]
                 /\ cur' = [cur EXCEPT ![w] = Len(hist) + 1]
                 /\ hist' = Append(hist, Summary(a, 0))
                 /\ IF b = "resolved_get"
                    THEN /\ loc' = [loc EXCEPT ![w] = ZeroLocals]
                         /\ UNCHANGED clock
                    ELSE \E now \in Now :
                           /\ clock' = now
                           /\ loc' = [loc EXCEPT ![w] =
                                        [ZeroLocals EXCEPT !.now = now,
                                           !.text = formatMessage(a, now, <<>>, <<>>)]]
  /\ UNCHANGED <<redisVars, lockVars, callVars>>
  /\ UNCHANGED <<sops, secret, store, sentMsgID, calls, workers>>

\* ProblemSend without the return on err: the entry is stored all the same.
ProblemSendIgnoresError(w) ==
  /\ pc[w] = "problem_send"
  /\ \E ok \in BOOLEAN :
       /\ Sent(w, ok)
       /\ loc' = [loc EXCEPT ![w].msgID = SendMessage(ok).msgID]
       /\ pc' = [pc EXCEPT ![w] = "problem_set"]
  /\ UNCHANGED <<redisVars, lockVars, callVars>>
  /\ UNCHANGED <<sops, secret, store, clock, workers, cur, req, alert, pre, code, hist>>

\* case StatusProblem: h.bot.SendMessage(text) (handler.go:86-91)
ProblemSend(w) ==
  /\ pc[w] = "problem_send"
  /\ \E ok \in BOOLEAN :
       /\ Sent(w, ok)
       /\ IF ok
          THEN /\ loc' = [loc EXCEPT ![w].msgID = SendMessage(ok).msgID]
               /\ pc' = [pc EXCEPT ![w] = "problem_set"]
               /\ UNCHANGED <<code, hist>>
          ELSE /\ Respond(w, StatusInternalServerError)
               /\ UNCHANGED loc
  /\ UNCHANGED <<redisVars, lockVars, callVars>>
  /\ UNCHANGED <<sops, secret, store, clock, workers, cur, req, alert, pre>>

\* ProblemSet that reads the clock again for the entry's start time.
ProblemSetReadsClockAgain(w) ==
  /\ pc[w] = "problem_set"
  /\ \E later \in Now :
       store' = Set(store, alert[w].EventID,
                    Entry(loc[w].msgID, FormatTime(later),
                          alert[w].Message, alert[w].Severity))
  /\ Stored(w, "set")
  /\ Respond(w, StatusOK)
  /\ UNCHANGED <<redisVars, lockVars, callVars>>
  /\ UNCHANGED <<secret, sentMsgID, clock, calls, workers, cur, req, alert, loc, pre>>

\* case StatusProblem: h.store.Set(...) and the 200 (handler.go:92-98, 137)
ProblemSet(w) ==
  /\ pc[w] = "problem_set"
  /\ store' = Set(store, alert[w].EventID,
                  Entry(loc[w].msgID, FormatTime(loc[w].now),
                        alert[w].Message, alert[w].Severity))
  /\ Stored(w, "set")
  /\ Respond(w, StatusOK)
  /\ UNCHANGED <<redisVars, lockVars, callVars>>
  /\ UNCHANGED <<secret, sentMsgID, clock, calls, workers, cur, req, alert, loc, pre>>

\* case StatusResolved: h.store.Get and the text (handler.go:101-105, 115)
ResolvedGet(w) ==
  /\ pc[w] = "resolved_get"
  /\ LET g == Get(store, alert[w].EventID)
         a == IF g.ok /\ alert[w].Severity = <<>> /\ g.entry.Severity # <<>>
              THEN [alert[w] EXCEPT !.Severity = g.entry.Severity]
              ELSE alert[w]
     IN  /\ alert' = [alert EXCEPT ![w] = a]
         /\ \E now \in Now :
              /\ clock' = now
              /\ loc' = [loc EXCEPT ![w] =
                   [now |-> now, msgID |-> 0, entry |-> g.entry,
                    text |-> IF g.ok
                             THEN formatMessage(a, now, g.entry.StartTime,
                                                g.entry.Message)
                             ELSE formatMessage(a, now, <<>>, <<>>)]]
         /\ pc' = [pc EXCEPT ![w] = IF g.ok THEN "resolved_edit" ELSE "resolved_send"]
  /\ Stored(w, "get")
  /\ UNCHANGED <<redisVars, lockVars, callVars>>
  /\ UNCHANGED <<secret, store, sentMsgID, calls, hist, workers, cur, req,
                 code, pre>>

\* ResolvedEdit without the return on err: the entry is deleted all the same.
ResolvedEditIgnoresError(w) ==
  /\ pc[w] = "resolved_edit"
  /\ \E ok \in BOOLEAN :
       /\ Edited(w, loc[w].entry.MessageID, ok)
       /\ pc' = [pc EXCEPT ![w] = "resolved_delete"]
  /\ UNCHANGED <<redisVars, lockVars, callVars>>
  /\ UNCHANGED <<sops, secret, store, sentMsgID, clock, workers, cur, req, alert, loc,
                 pre, code, hist>>

\* ResolvedEdit that falls back to a new message when the edit fails.
ResolvedEditFallsBack(w) ==
  /\ pc[w] = "resolved_edit"
  /\ \E ok \in BOOLEAN :
       /\ Edited(w, loc[w].entry.MessageID, ok)
       /\ pc' = [pc EXCEPT ![w] = IF ok THEN "resolved_delete" ELSE "resolved_send"]
  /\ UNCHANGED <<redisVars, lockVars, callVars>>
  /\ UNCHANGED <<sops, secret, store, sentMsgID, clock, workers, cur, req, alert, loc,
                 pre, code, hist>>

\* case StatusResolved, entry found: h.bot.EditMessage (handler.go:106-110)
ResolvedEdit(w) ==
  /\ pc[w] = "resolved_edit"
  /\ \E ok \in BOOLEAN :
       /\ Edited(w, loc[w].entry.MessageID, ok)
       /\ IF ok
          THEN /\ pc' = [pc EXCEPT ![w] = "resolved_delete"]
               /\ UNCHANGED <<code, hist>>
          ELSE Respond(w, StatusInternalServerError)
  /\ UNCHANGED <<redisVars, lockVars, callVars>>
  /\ UNCHANGED <<sops, secret, store, sentMsgID, clock, workers, cur, req, alert, loc,
                 pre>>

\* ResolvedDelete that deletes the entry only while it still holds the
\* message that was edited.
ResolvedDeleteIfSame(w) ==
  /\ pc[w] = "resolved_delete"
  /\ store' = IF Get(store, alert[w].EventID).entry = loc[w].entry
              THEN Delete(store, alert[w].EventID) ELSE store
  /\ Stored(w, "del")
  /\ Respond(w, StatusOK)
  /\ UNCHANGED <<redisVars, lockVars, callVars>>
  /\ UNCHANGED <<secret, sentMsgID, clock, calls, workers, cur, req, alert, loc, pre>>

\* case StatusResolved, entry found: h.store.Delete and the 200
\* (handler.go:111-112, 137)
ResolvedDelete(w) ==
  /\ pc[w] = "resolved_delete"
  /\ store' = Delete(store, alert[w].EventID)
  /\ Stored(w, "del")
  /\ Respond(w, StatusOK)
  /\ UNCHANGED <<redisVars, lockVars, callVars>>
  /\ UNCHANGED <<secret, sentMsgID, clock, calls, workers, cur, req, alert, loc, pre>>

\* A send whose message ID is only logged (handler.go:116-122, 128-134, 137).
SendOnly(w) ==
  \E ok \in BOOLEAN :
    /\ Sent(w, ok)
    /\ loc' = [loc EXCEPT ![w].msgID = SendMessage(ok).msgID]
    /\ Respond(w, IF ok THEN StatusOK ELSE StatusInternalServerError)
    /\ UNCHANGED <<redisVars, lockVars, callVars>>
    /\ UNCHANGED <<sops, secret, store, clock, workers, cur, req, alert, pre>>

\* case StatusResolved, no entry: h.bot.SendMessage (handler.go:113-123)
ResolvedSend(w) == pc[w] = "resolved_send" /\ SendOnly(w)

\* default: h.bot.SendMessage (handler.go:125-135)
InfoSend(w) == pc[w] = "info_send" /\ SendOnly(w)

Next ==
  \/ \E w \in AllWorkers, r \in Requests : Receive(w, r)
  \/ \E w \in AllWorkers : ProblemSend(w)
  \/ \E w \in AllWorkers : ProblemSet(w)
  \/ \E w \in AllWorkers : ResolvedGet(w)
  \/ \E w \in AllWorkers : ResolvedEdit(w)
  \/ \E w \in AllWorkers : ResolvedDelete(w)
  \/ \E w \in AllWorkers : ResolvedSend(w)
  \/ \E w \in AllWorkers : InfoSend(w)

Spec == Init /\ [][Next]_vars

\* ================================================================== claims
\* No request is being served.
Quiet == \A w \in AllWorkers : pc[w] \in {"idle", "done"}

\* The transport calls (indices in calls) that request n made.
CallsOf(n) == {i \in 1..Len(calls) : calls[i].req = n}

\* Request n has been answered.
Completed(n) == hist[n].code # 0

\* No transport call of request n failed.
Succeeded(n) == \A i \in CallsOf(n) : calls[i].ok

\* Request n made exactly one transport call: method op on message id.
OnlyCall(n, op, id) ==
  \E i \in CallsOf(n) :
    CallsOf(n) = {i} /\ calls[i].op = op /\ calls[i].id = id

\* The message ID of the first transport call of request n.
CallID(n) == calls[CHOOSE i \in CallsOf(n) : \A j \in CallsOf(n) : i <= j].id

\* Goroutine w has answered a request that passed the checks.
Served(w) == pc[w] = "done" /\ cur[w] # 0

\* ------------------------------------------------------------------- C1
ProblemThenResolved(n) ==
  /\ n + 1 <= Len(hist)
  /\ hist[n].Status = StatusProblem
  /\ hist[n + 1].Status = StatusResolved
  /\ hist[n + 1].EventID = hist[n].EventID
  /\ Completed(n) /\ Completed(n + 1)
  /\ CallsOf(n) # {} /\ CallsOf(n + 1) # {}
  /\ Succeeded(n) /\ Succeeded(n + 1)

\* C1: when a PROBLEM and then a RESOLVED for the same event_id are handled
\* one after the other and the transport succeeds, the RESOLVED makes one
\* call, an EditMessage on the very message ID the PROBLEM's SendMessage
\* returned, it is answered 200, and once it is answered the store holds no
\* entry for the event_id.
C1_ResolvedEditsSentMessage ==
  \A n \in 1..Len(hist) :
    ProblemThenResolved(n) =>
      /\ OnlyCall(n, "send", CallID(n))
      /\ OnlyCall(n + 1, "edit", CallID(n))
      /\ hist[n + 1].code = StatusOK
      /\ (n + 1 = Len(hist) /\ Quiet => hist[n].EventID \notin DOMAIN store)

C1_Witness ==
  \E n \in 1..Len(hist) :
    /\ ProblemThenResolved(n)
    /\ n + 1 = Len(hist) /\ Quiet
    /\ calls[Len(calls)].op = "edit" /\ calls[Len(calls)].id = CallID(n)
    /\ hist[n].EventID \notin DOMAIN store

\* ------------------------------------------------------------------- C2
\* Goroutine w has answered a PROBLEM alert that passed the checks and whose
\* event_id had no entry when it was received.
FreshProblemServed(w) ==
  /\ Served(w)
  /\ alert[w].Status = StatusProblem
  /\ alert[w].EventID \notin DOMAIN pre[w]

ProblemStored(w) ==
  /\ alert[w].EventID \in DOMAIN store
  /\ store[alert[w].EventID].MessageID = CallID(cur[w])
  /\ OnlyCall(cur[w], "send", CallID(cur[w]))
  /\ ops[w].send = 1 /\ ops[w].edit = 0
  /\ code[w] = StatusOK

\* C2 as stated: every PROBLEM alert that passes the checks and whose
\* event_id has no entry leaves an entry holding the message ID the send
\* returned, makes one SendMessage call and no EditMessage call, and is
\* answered 200.
C2_AsStated == \A w \in AllWorkers : FreshProblemServed(w) => ProblemStored(w)

\* C2, amended: every PROBLEM alert that passes the checks, whose event_id has
\* no entry and whose SendMessage call succeeds leaves an entry holding the
\* message ID the send returned, makes one SendMessage call and no
\* EditMessage call, and is answered 200.
C2_FreshProblemStored ==
  \A w \in AllWorkers :
    FreshProblemServed(w) /\ Succeeded(cur[w]) => ProblemStored(w)

C2_Witness ==
  \E w \in AllWorkers :
    /\ FreshProblemServed(w) /\ Succeeded(cur[w])
    /\ alert[w].EventID \in DOMAIN store
    /\ store[alert[w].EventID].MessageID = sentMsgID
    /\ sentMsgID > 0

\* ------------------------------------------------------------------- C3
\* Goroutine w has answered a RESOLVED alert that passed the checks and whose
\* event_id had no entry when it was received.
UntrackedResolvedServed(w) ==
  /\ Served(w)
  /\ alert[w].Status = StatusResolved
  /\ alert[w].EventID \notin DOMAIN pre[w]

\* C3: a RESOLVED alert whose event_id has no entry makes exactly one
\* SendMessage call and no EditMessage call, is answered 200 when the send
\* succeeds, and leaves the store as it was.
C3_UntrackedResolvedSends ==
  \A w \in AllWorkers :
    UntrackedResolvedServed(w) =>
      /\ ops[w].send = 1 /\ ops[w].edit = 0
      /\ \E i \in CallsOf(cur[w]) : CallsOf(cur[w]) = {i} /\ calls[i].op = "send"
      /\ (Succeeded(cur[w]) => code[w] = StatusOK)
      /\ store = pre[w]

C3_Witness ==
  \E w \in AllWorkers :
    /\ UntrackedResolvedServed(w)
    /\ Succeeded(cur[w]) /\ code[w] = StatusOK
    /\ ops[w].send = 1
    /\ store = pre[w] /\ store # EmptyStore

\* ------------------------------------------------------------------- C4
\* Goroutine w has answered a PROBLEM alert whose SendMessage call failed.
FailedProblemServed(w) ==
  /\ Served(w)
  /\ alert[w].Status = StatusProblem
  /\ ops[w].send > 0
  /\ ~Succeeded(cur[w])

\* C4: when the SendMessage call of a PROBLEM alert fails, the answer is 500
\* and the store is as it was when the request was received: no entry for a
\* fresh event_id, and an existing entry with its messageID, startTime,
\* message and severity unchanged.
C4_FailedProblemKeepsStore ==
  \A w \in AllWorkers :
    FailedProblemServed(w) =>
      /\ code[w] = StatusInternalServerError
      /\ store = pre[w]
      /\ ops[w].set = 0

C4_Witness ==
  \E w \in AllWorkers :
    /\ FailedProblemServed(w)
    /\ code[w] = StatusInternalServerError
    /\ alert[w].EventID \in DOMAIN pre[w]
    /\ store[alert[w].EventID] = pre[w][alert[w].EventID]
    /\ alert[w].Severity # store[alert[w].EventID].Severity

\* ------------------------------------------------------------------- C5
\* Goroutine w has answered a RESOLVED alert whose EditMessage call failed.
FailedEditServed(w) ==
  /\ Served(w)
  /\ alert[w].Status = StatusResolved
  /\ ops[w].edit > 0
  /\ ~Succeeded(cur[w])

\* No request between n and m (exclusive) was for the event_id of request n.
NoneBetween(n, m) ==
  \A k \in (n + 1)..(m - 1) : hist[k].EventID # hist[n].EventID

\* Request m is a RESOLVED whose transport call succeeded and that retries
\* request n, a RESOLVED for the same event_id whose EditMessage call failed.
RetryOfFailedEdit(n, m) ==
  /\ n < m
  /\ hist[n].Status = StatusResolved /\ hist[m].Status = StatusResolved
  /\ hist[m].EventID = hist[n].EventID
  /\ NoneBetween(n, m)
  /\ Completed(n) /\ Completed(m)
  /\ \E i \in CallsOf(n) : calls[i].op = "edit" /\ ~calls[i].ok
  /\ CallsOf(m) # {} /\ Succeeded(m)

\* C5: when a RESOLVED alert finds an entry and EditMessage fails, the answer
\* is 500 and the store is as it was, the entry included; the entry is there
\* as long as the edit has not succeeded; and the next RESOLVED for that
\* event_id whose transport call succeeds edits the same message ID, is
\* answered 200 and leaves no entry.
C5_FailedEditKeepsEntry ==
  /\ \A w \in AllWorkers :
       /\ FailedEditServed(w) =>
            /\ code[w] = StatusInternalServerError
            /\ alert[w].EventID \in DOMAIN store
            /\ store = pre[w]
            /\ ops[w].del = 0
       /\ pc[w] = "resolved_edit" =>
            /\ alert[w].EventID \in DOMAIN store
            /\ ops[w].del = 0
  /\ \A n \in 1..Len(hist) : \A m \in 1..Len(hist) :
       RetryOfFailedEdit(n, m) =>
         /\ OnlyCall(m, "edit", CallID(n))
         /\ hist[m].code = StatusOK
         /\ (m = Len(hist) /\ Quiet => hist[m].EventID \notin DOMAIN store)

C5_Witness ==
  \E n \in 1..Len(hist) : \E m \in 1..Len(hist) :
    /\ RetryOfFailedEdit(n, m)
    /\ hist[n].code = StatusInternalServerError
    /\ OnlyCall(m, "edit", CallID(n))
    /\ m = Len(hist) /\ Quiet
    /\ hist[m].EventID \notin DOMAIN store

\* ------------------------------------------------------------------- C6
Rejections == {StatusMethodNotAllowed, StatusBadRequest, StatusUnauthorized}

\* C6: a request answered 405, 400 or 401 has returned without a SendMessage
\* or EditMessage call and without a store Get, Set or Delete, and the store
\* is as it was when the request was received.
C6_RejectedTouchesNothing ==
  \A w \in AllWorkers :
    code[w] \in Rejections =>
      /\ pc[w] = "done"
      /\ ops[w] = ZeroOps
      /\ \A i \in 1..Len(calls) : calls[i].req # cur[w]
      /\ store = pre[w]

C6_Witness ==
  \E w \in AllWorkers :
    /\ code[w] = StatusUnauthorized
    /\ pc[w] = "done"
    /\ ops[w] = ZeroOps
    /\ store = pre[w] /\ store # EmptyStore
    /\ Decode(req[w]).alert.EventID \in DOMAIN store

\* ------------------------------------------------------------------- C7
\* The request is a POST whose body is a JSON object with a non-empty
\* event_id, so that ServeHTTP gets to the secret check.
ReachesSecretCheck(r) ==
  /\ r.method = "POST"
  /\ r.wellFormed
  /\ "event_id" \in DOMAIN r.object
  /\ r.object["event_id"] # <<>>

\* The body carries a secret field equal to the configured secret.
SecretMatches(r) ==
  /\ r.wellFormed
  /\ "secret" \in DOMAIN r.object
  /\ r.object["secret"] = secret

\* The request of goroutine w passed the checks.
Accepted(w) == code[w] \in {0, StatusOK, StatusInternalServerError}

ResolvedTwice(n) ==
  /\ n + 2 <= Len(hist)
  /\ hist[n].Status = StatusProblem
  /\ hist[n + 1].Status = StatusResolved /\ hist[n + 1].EventID = hist[n].EventID
  /\ hist[n + 2].Status = StatusResolved /\ hist[n + 2].EventID = hist[n].EventID
  /\ \A k \in n..(n + 2) : Completed(k) /\ CallsOf(k) # {} /\ Succeeded(k)

\* C8: when PROBLEM, RESOLVED, RESOLVED for one event_id are handled one
\* after the other and the transport succeeds, the first RESOLVED edits the
\* message the PROBLEM sent, the second makes one SendMessage call and no
\* edit, and both are answered 200.
C8_SecondResolveSends ==
  \A n \in 1..Len(hist) :
    ResolvedTwice(n) =>
      /\ OnlyCall(n + 1, "edit", CallID(n))
      /\ OnlyCall(n + 2, "send", CallID(n + 2))
      /\ CallID(n + 2) # CallID(n)
      /\ hist[n + 1].code = StatusOK
      /\ hist[n + 2].code = StatusOK

C8_Witness ==
  \E n \in 1..Len(hist) :
    /\ ResolvedTwice(n)
    /\ OnlyCall(n + 2, "send", sentMsgID)
    /\ hist[n + 2].code = StatusOK

\* ------------------------------------------------------------------- C9
\* Goroutine w has answered 200 a PROBLEM alert whose event_id had an entry
\* when it was received.
RepeatedProblemServed(w) ==
  /\ Served(w)
  /\ alert[w].Status = StatusProblem
  /\ alert[w].EventID \in DOMAIN pre[w]
  /\ code[w] = StatusOK

\* Requests n < m are PROBLEMs for one event_id, both answered 200.
Superseded(n, m) ==
  /\ n < m
  /\ hist[n].Status = StatusProblem /\ hist[m].Status = StatusProblem
  /\ hist[m].EventID = hist[n].EventID
  /\ hist[n].code = StatusOK /\ hist[m].code = StatusOK

\* Request n is the latest PROBLEM answered 200 for the event_id of request m
\* among the requests before m.
LatestProblem(n, m) ==
  /\ n < m
  /\ hist[n].Status = StatusProblem
  /\ hist[n].EventID = hist[m].EventID
  /\ hist[n].code = StatusOK
  /\ \A k \in (n + 1)..(m - 1) :
       ~(hist[k].Status = StatusProblem /\ hist[k].EventID = hist[m].EventID
         /\ hist[k].code = StatusOK)

\* C9: a PROBLEM alert for an event_id that has an entry makes one
\* SendMessage call and no edit, and when it is answered 200 the entry holds
\* its message ID, its start time, its message and its severity; from then on
\* the message of the PROBLEM it superseded is never edited, and a RESOLVED
\* for the event_id edits no message but the one of the latest PROBLEM
\* answered 200.
C9_LastProblemWins ==
  /\ \A w \in AllWorkers :
       RepeatedProblemServed(w) =>
         /\ OnlyCall(cur[w], "send", loc[w].msgID)
         /\ ops[w].send = 1 /\ ops[w].edit = 0
         /\ loc[w].msgID \notin {pre[w][k].MessageID : k \in DOMAIN pre[w]}
         /\ store[alert[w].EventID] =
              [MessageID |-> loc[w].msgID,
               StartTime |-> FormatTime(loc[w].now),
               Message |-> Field(req[w].object, "message"),
               Severity |-> Field(req[w].object, "severity")]
  /\ \A n \in 1..Len(hist) : \A m \in 1..Len(hist) :
       /\ Superseded(n, m) =>
            \A i \in 1..Len(calls) :
              calls[i].op = "edit" /\ calls[i].id = CallID(n) => calls[i].req < m
       /\ hist[m].Status = StatusResolved /\ LatestProblem(n, m) =>
            \A i \in CallsOf(m) : calls[i].op = "edit" => calls[i].id = CallID(n)

C9_Witness ==
  \E n \in 1..Len(hist) : \E m \in 1..Len(hist) : \E k \in 1..Len(hist) :
    /\ Superseded(n, m) /\ m = n + 1
    /\ hist[k].Status = StatusResolved /\ LatestProblem(m, k)
    /\ OnlyCall(k, "edit", CallID(m))
    /\ CallID(m) # CallID(n)
    /\ hist[k].code = StatusOK

\* ------------------------------------------------------------------ C10
\* Goroutine w has answered an alert that passed the checks and whose status
\* is neither PROBLEM nor RESOLVED.
InformationalServed(w) ==
  /\ Served(w)
  /\ alert[w].Status \notin {StatusProblem, StatusResolved}

\* C10: an alert whose status is neither PROBLEM nor RESOLVED makes one
\* SendMessage call and no edit, makes no store Get, Set or Delete, and leaves
\* the store as it was, the entry of its own event_id included.
C10_InformationalNotCorrelated ==
  \A w \in AllWorkers :
    InformationalServed(w) =>
      /\ \E i \in CallsOf(cur[w]) : CallsOf(cur[w]) = {i} /\ calls[i].op = "send"
      /\ ops[w] = [ZeroOps EXCEPT !.send = 1]
      /\ store = pre[w]

C10_Witness ==
  \E w \in AllWorkers :
    /\ InformationalServed(w)
    /\ alert[w].EventID \in DOMAIN pre[w]
    /\ store = pre[w]
    /\ ops[w] = [ZeroOps EXCEPT !.send = 1]
    /\ code[w] = StatusOK

\* ------------------------------------------------------------------ C11
\* Goroutine w has answered 200 an alert that is a PROBLEM or informational.
ProblemOrInformationalSent(w) ==
  /\ Served(w)
  /\ alert[w].Status # StatusResolved
  /\ code[w] = StatusOK

\* After the request of goroutine w the store holds, for its event_id, the
\* entry of the message the request sent.
EntryCreated(w) ==
  /\ alert[w].EventID \in DOMAIN store
  /\ store[alert[w].EventID].MessageID = loc[w].msgID
  /\ ops[w].set = 1

\* C11 as stated: a PROBLEM alert or an informational alert that is sent
\* successfully creates an entry in the store.
C11_AsStated ==
  \A w \in AllWorkers : ProblemOrInformationalSent(w) => EntryCreated(w)

\* C11, amended: a PROBLEM alert that is sent successfully creates an entry
\* in the store, the entry of the message sent; an informational alert that
\* is sent successfully makes no Set and leaves the keys of the store as
\* they were.
C11_OnlyProblemCreatesEntry ==
  \A w \in AllWorkers :
    ProblemOrInformationalSent(w) =>
      IF alert[w].Status = StatusProblem
      THEN EntryCreated(w)
      ELSE /\ ops[w].set = 0
           /\ DOMAIN store = DOMAIN pre[w]
           /\ \A i \in 1..Len(sops) : sops[i].req # cur[w]

C11_Witness ==
  \E w \in AllWorkers :
    /\ ProblemOrInformationalSent(w)
    /\ alert[w].Status = StatusOther
    /\ alert[w].EventID \notin DOMAIN store
    /\ \E k \in DOMAIN store : store[k].MessageID < loc[w].msgID

\* ------------------------------------------------------------------ C12
\* Goroutine w has answered a POST whose body is a JSON object with status
\* PROBLEM and a non-empty trigger_id, no secret being configured and no
\* transport call having failed.
ProblemWithTriggerServed(w) ==
  /\ pc[w] = "done"
  /\ secret = <<>>
  /\ req[w].method = "POST" /\ req[w].wellFormed
  /\ Field(req[w].object, "status") = StatusProblem
  /\ Field(req[w].object, "trigger_id") # <<>>
  /\ \A i \in 1..Len(calls) : calls[i].req = cur[w] => calls[i].ok

\* C12: a PROBLEM alert that carries trigger_id X is answered 200 and
\* afterwards store.Get(X) finds an entry that holds the message ID the send
\* returned.
C12_AsStated ==
  \A w \in AllWorkers :
    ProblemWithTriggerServed(w) =>
      /\ code[w] = StatusOK
      /\ ops[w].send = 1
      /\ Get(store, Field(req[w].object, "trigger_id")).ok
      /\ Get(store, Field(req[w].object, "trigger_id")).entry.MessageID = loc[w].msgID

\* ------------------------------------------------------------------ C13
\* The event_id member of the body of request r as the decoder reads it.
BodyEventID(r) == Field(r.object, "event_id")

\* The secret member of the body of request r differs from the configured one.
BodySecretRefused(r) == secret # <<>> /\ Field(r.object, "secret") # secret

\* Some transport call of the request goroutine w serves has failed.
TransportFailed(w) ==
  \E i \in 1..Len(calls) : calls[i].req = cur[w] /\ ~calls[i].ok

StoreKeys == {EventA, EventB}
EntryOne == Entry(1, Digits(0), <<"a", "<", "\"">>, <<"H", "i">>)
EntryTwo == Entry(12, Digits(10), <<"\\", "&", ">">>, <<>>)
StoreEntries == {EntryOne, EntryTwo}

\* Bytes another client of the server leaves under a key: no JSON at all, or
\* an object whose MessageID is a string.
ForeignBytes ==
  { NotJSON, JSONObject(<< Member("MessageID", "string", Quote(<<"x">>)) >>) }

\* The replies that differ for a command that changes nothing.
ReadReplies == { r \in Replies : r.applied = (r.err = "none") }

\* The record of one call on the store: the method, its arguments, how the
\* backend answered, what the call returned and the store's contents before
\* and after it.
StoreCall(op, key, value, reply, result, before, after) ==
  [op |-> op, key |-> key, value |-> value, reply |-> reply,
   entry |-> result.entry, ok |-> result.ok, before |-> before, after |-> after]

\* What a method without a result returns.
Nothing == [entry |-> NoEntry, ok |-> FALSE]

Traced(call) ==
  /\ Len(trace) < MaxStoreCalls
  /\ trace' = Append(trace, call)
  /\ UNCHANGED <<secret, sentMsgID, clock, calls, hist, workers, pc, cur, req,
                 alert, loc, code, pre, ops, sops, kind, lockVars, callVars>>

\* MessageStore.Set, Get and Delete called by one goroutine.
MemSet(k, e) ==
  /\ kind = "memory"
  /\ store' = Set(store, k, e)
  /\ Traced(StoreCall("set", k, e, Healthy, Nothing, store, store'))
  /\ UNCHANGED server

MemGet(k) ==
  /\ kind = "memory"
  /\ Traced(StoreCall("get", k, NoEntry, Healthy, Get(store, k), store, store))
  /\ UNCHANGED <<store, server>>

MemDelete(k) ==
  /\ kind = "memory"
  /\ store' = Delete(store, k)
  /\ Traced(StoreCall("del", k, NoEntry, Healthy, Nothing, store, store'))
  /\ UNCHANGED server

\* RedisStore.Set, Get and Delete called by one goroutine.
RedisSetCall(k, e, reply) ==
  /\ kind = "redis"
  /\ server' = RedisSet(server, k, e, reply)
  /\ Traced(StoreCall("set", k, e, reply, Nothing, server, server'))
  /\ UNCHANGED store

RedisGetCall(k, reply) ==
  /\ kind = "redis"
  /\ Traced(StoreCall("get", k, NoEntry, reply, RedisGet(server, k, reply),
                      server, server))
  /\ UNCHANGED <<store, server>>

RedisDeleteCall(k, reply) ==
  /\ kind = "redis"
  /\ server' = RedisDelete(server, k, reply)
  /\ Traced(StoreCall("del", k, NoEntry, reply, Nothing, server, server'))
  /\ UNCHANGED store

\* Another client of the server writes a key.
ForeignWrite(k, data) ==
  /\ kind = "redis"
  /\ server' = ServerSet(server, k, data)
  /\ Traced(StoreCall("foreign", k, NoEntry, Healthy, Nothing, server, server'))
  /\ UNCHANGED store

InitStore == InitWith({}) /\ secret = <<>> /\ kind \in {"memory", "redis"}

NextStore ==
  \E k \in StoreKeys :
    \/ \E e \in StoreEntries : MemSet(k, e)
    \/ MemGet(k)
    \/ MemDelete(k)
    \/ \E e \in StoreEntries, reply \in Replies : RedisSetCall(k, e, reply)
    \/ \E reply \in ReadReplies : RedisGetCall(k, reply)
    \/ \E reply \in Replies : RedisDeleteCall(k, reply)
    \/ \E data \in ForeignBytes : ForeignWrite(k, data)

SpecStore == InitStore /\ [][NextStore]_vars

\* The calls of the trace, and those made on the RedisStore itself.
TraceCalls == 1..Len(trace)
OwnCalls == { i \in TraceCalls : trace[i].op # "foreign" }

\* ------------------------------------------------------------------ C14
\* The bytes are none the store wrote for an entry.
Corrupt(data) == \A e \in StoreEntries : data # Marshal(e)

\* Call i is a Get that met a backend error, a timeout, an absent key or a
\* value that does not deserialize.
FailedGet(i) ==
  /\ trace[i].op = "get"
  /\ \/ trace[i].reply.err # "none"
     \/ trace[i].key \notin DOMAIN trace[i].before
     \/ Corrupt(trace[i].before[trace[i].key])

\* Call i is a Set or a Delete that met a backend error or a timeout.
FailedWrite(i) ==
  /\ trace[i].op \in {"set", "del"}
  /\ trace[i].reply.err # "none"

\* The server as call i leaves it when the server runs the command.
Applied(i) ==
  IF trace[i].op = "set"
  THEN ServerSet(trace[i].before, trace[i].key, Marshal(trace[i].value))
  ELSE ServerDel(trace[i].before, trace[i].key)

\* C14 as stated: in the networked variant a Get that meets a backend error,
\* a timeout, a value that does not deserialize or an absent key returns
\* (empty entry, not found), and a Set or Delete that meets a backend error
\* or a timeout has changed nothing.
C14_AsStated ==
  kind = "redis" =>
    \A i \in OwnCalls :
      /\ FailedGet(i) => ~trace[i].ok /\ trace[i].entry = NoEntry
      /\ FailedWrite(i) => trace[i].after = trace[i].before

\* C14, amended: a failed Get returns (empty entry, not found); a Set or
\* Delete that meets a backend error has changed nothing, and one that meets
\* the timeout has either changed nothing or taken effect on the server.
C14_FailuresNotSurfaced ==
  kind = "redis" =>
    \A i \in OwnCalls :
      /\ FailedGet(i) => ~trace[i].ok /\ trace[i].entry = NoEntry
      /\ (FailedWrite(i) /\ trace[i].reply.err = "error")
           => trace[i].after = trace[i].before
      /\ (FailedWrite(i) /\ trace[i].reply.err = "timeout")
           => trace[i].after \in {trace[i].before, Applied(i)}

\* A Get has met a value that does not deserialize, and a Set that timed
\* out has changed the server.
C14_Witness ==
  /\ kind = "redis"
  /\ \E i \in OwnCalls :
       /\ trace[i].op = "get" /\ trace[i].reply = Healthy
       /\ trace[i].key \in DOMAIN trace[i].before
       /\ Corrupt(trace[i].before[trace[i].key])
  /\ \E i \in OwnCalls :
       /\ trace[i].op = "set" /\ trace[i].reply.err = "timeout"
       /\ trace[i].after # trace[i].before

\* ------------------------------------------------------------------ C16
\* Every call up to call j was made on a healthy backend that no other
\* client wrote to.
HealthyUpTo(j) ==
  \A i \in 1..j : trace[i].reply = Healthy /\ trace[i].op # "foreign"

\* The Sets and Deletes of key k before call j.
WritesBefore(j, k) ==
  { i \in 1..(j - 1) : trace[i].key = k /\ trace[i].op \in {"set", "del"} }

\* The last of them.
LastWrite(j, k) ==
  CHOOSE i \in WritesBefore(j, k) : \A h \in WritesBefore(j, k) : h <= i

C17_Delete ==
  \A j \in TraceCalls :
    HealthyUpTo(j) =>
      /\ (/\ trace[j].op = "get"
          /\ WritesBefore(j, trace[j].key) # {}
          /\ trace[LastWrite(j, trace[j].key)].op = "del")
           => ~trace[j].ok /\ trace[j].entry = NoEntry
      /\ (trace[j].op = "del" /\ trace[j].key \notin DOMAIN trace[j].before)
           => trace[j].after = trace[j].before

\* On the RedisStore a key has been set, deleted and then not found.
C17_Witness ==
  /\ kind = "redis"
  /\ Len(trace) >= 3
  /\ HealthyUpTo(3)
  /\ trace[1].op = "set" /\ trace[2].op = "del" /\ trace[3].op = "get"
  /\ trace[1].key = trace[2].key /\ trace[2].key = trace[3].key
  /\ ~trace[3].ok

\* -------------------------------------------- the handler on a RedisStore
\* The alerts sent to the handler whose store is the RedisStore.
NetRequests ==
  { Request(MethodPost, TRUE, Object(o)) : o \in
      { AlertPairs(EventA, StatusProblem, DetailsHigh, WithSecret(GoodSecret)),
        AlertPairs(EventA, StatusResolved, NoDetails, WithSecret(GoodSecret)),
        AlertPairs(EventA, StatusOther, NoDetails, WithSecret(GoodSecret)) } }

\* A method of the RedisStore as goroutine w calls it.
RedisStored(w, op, call) ==
  /\ kind = "redis"
  /\ trace' = Append(trace, call)
  /\ Stored(w, op)
  /\ UNCHANGED <<kind, store, lockVars, callVars>>

\* case StatusProblem: h.store.Set(...) on the RedisStore and the 200
RedisProblemSet(w) ==
  /\ pc[w] = "problem_set"
  /\ \E reply \in Replies :
       LET e == Entry(loc[w].msgID, FormatTime(loc[w].now),
                      alert[w].Message, alert[w].Severity)
       IN  /\ server' = RedisSet(server, alert[w].EventID, e, reply)
           /\ RedisStored(w, "set",
                StoreCall("set", alert[w].EventID, e, reply, Nothing,
                          server, server'))
  /\ Respond(w, StatusOK)
  /\ UNCHANGED <<secret, sentMsgID, clock, calls, workers, cur, req, alert, loc, pre>>

\* RedisResolvedGet that answers 500 when the backend fails.
RedisResolvedGetSurfaces(w) ==
  /\ pc[w] = "resolved_get"
  /\ \E reply \in ReadReplies :
       LET g == RedisGet(server, alert[w].EventID, reply)
       IN  /\ RedisStored(w, "get",
                StoreCall("get", alert[w].EventID, NoEntry, reply, g,
                          server, server))
           /\ Respond(w, IF reply.err # "none"
                         THEN StatusInternalServerError ELSE StatusOK)
           /\ loc' = [loc EXCEPT ![w].entry = g.entry]
  /\ UNCHANGED <<secret, server, sentMsgID, clock, calls, workers, cur, req,
                 alert, pre>>

\* case StatusResolved: h.store.Get on the RedisStore and the text
RedisResolvedGet(w) ==
  /\ pc[w] = "resolved_get"
  /\ \E reply \in ReadReplies :
     \E g \in {RedisGet(server, alert[w].EventID, reply)} :
     \E a \in {IF g.ok /\ alert[w].Severity = <<>> /\ g.entry.Severity # <<>>
               THEN [alert[w] EXCEPT !.Severity = g.entry.Severity]
               ELSE alert[w]} :
           /\ alert' = [alert EXCEPT ![w] = a]
           /\ \E now \in Now :
                /\ clock' = now
                /\ loc' = [loc EXCEPT ![w] =
                     [now |-> now, msgID |-> 0, entry |-> g.entry,
                      text |-> IF g.ok
                               THEN formatMessage(a, now, g.entry.StartTime,
                                                  g.entry.Message)
                               ELSE formatMessage(a, now, <<>>, <<>>)]]
           /\ pc' = [pc EXCEPT ![w] =
                       IF g.ok THEN "resolved_edit" ELSE "resolved_send"]
           /\ RedisStored(w, "get",
                StoreCall("get", alert[w].EventID, NoEntry, reply, g,
                          server, server))
  /\ UNCHANGED <<secret, server, sentMsgID, calls, hist, workers, cur, req,
                 code, pre>>

\* RedisResolvedDelete on a context without deadline: the call does not
\* return while the server does not answer.
RedisResolvedDeleteNoDeadline(w) ==
  /\ pc[w] = "resolved_delete"
  /\ \E reply \in Replies :
       /\ server' = RedisDelete(server, alert[w].EventID, reply)
       /\ RedisStored(w, "del",
            StoreCall("del", alert[w].EventID, NoEntry, reply, Nothing,
                      server, server'))
       /\ IF reply.err = "timeout"
          THEN /\ pc' = [pc EXCEPT ![w] = "blocked"]
               /\ UNCHANGED <<code, hist>>
          ELSE Respond(w, StatusOK)
  /\ UNCHANGED <<secret, sentMsgID, clock, calls, workers, cur, req, alert, loc, pre>>

\* case StatusResolved, entry found: h.store.Delete on the RedisStore and
\* the 200
RedisResolvedDelete(w) ==
  /\ pc[w] = "resolved_delete"
  /\ \E reply \in Replies :
       /\ server' = RedisDelete(server, alert[w].EventID, reply)
       /\ RedisStored(w, "del",
            StoreCall("del", alert[w].EventID, NoEntry, reply, Nothing,
                      server, server'))
  /\ Respond(w, StatusOK)
  /\ UNCHANGED <<secret, sentMsgID, clock, calls, workers, cur, req, alert, loc, pre>>

InitNet == InitWith({1}) /\ kind = "redis"

NextNet ==
  \/ \E w \in AllWorkers, r \in NetRequests : Receive(w, r)
  \/ \E w \in AllWorkers : ProblemSend(w)
  \/ \E w \in AllWorkers : RedisProblemSet(w)
  \/ \E w \in AllWorkers : RedisResolvedGet(w)
  \/ \E w \in AllWorkers : ResolvedEdit(w)
  \/ \E w \in AllWorkers : RedisResolvedDelete(w)
  \/ \E w \in AllWorkers : ResolvedSend(w)
  \/ \E w \in AllWorkers : InfoSend(w)

SpecNet == InitNet /\ [][NextNet]_vars

\* ------------------------------------------------------------------ C15
\* The store calls of the request goroutine w serves.
StoreCallsOf(w) == { i \in 1..Len(sops) : sops[i].req = cur[w] }

\* Goroutine w has served a RESOLVED alert whose Get met a failing backend
\* while the server held an entry for the event.
ResolvedGetFailed(w) ==
  /\ Served(w)
  /\ alert[w].Status = StatusResolved
  /\ \E i \in StoreCallsOf(w) :
       /\ trace[i].op = "get"
       /\ trace[i].reply.err # "none"
       /\ trace[i].key \in DOMAIN trace[i].before

\* C15: a request that passed the checks and whose transport call succeeded
\* is answered 200 whichever of its store calls failed; a RESOLVED alert for
\* an open event whose Get fails sends a new message, edits none and leaves
\* the stored entry in place.
C15_StoreFailuresNeverFail ==
  \A w \in AllWorkers :
    /\ (Served(w) /\ ~TransportFailed(w)) => code[w] = StatusOK
    /\ ResolvedGetFailed(w) =>
         /\ ops[w].send = 1 /\ ops[w].edit = 0 /\ ops[w].del = 0
         /\ \A i \in StoreCallsOf(w) :
              /\ alert[w].EventID \in DOMAIN server
              /\ server[alert[w].EventID] = trace[i].before[alert[w].EventID]

\* A RESOLVED alert for an open event has been answered 200 with a new
\* message after its Get failed.
C15_Witness ==
  \E w \in AllWorkers :
    /\ ResolvedGetFailed(w)
    /\ code[w] = StatusOK
    /\ ops[w].send = 1
    /\ alert[w].EventID \in DOMAIN server

\* ------------------------------------- goroutines sharing a MessageStore
\* The key the goroutines share and the entry goroutine n sets.
LockKey == EventA
EntryOf(n) == Entry(n, <<>>, <<>>, <<>>)

\* What the goroutines leave alone.
LockFrame ==
  UNCHANGED <<secret, sentMsgID, clock, calls, hist, workers, pc, cur, req,
              alert, loc, code, pre, ops, sops, redisVars, callVars>>

\* The method a goroutine calls after it has returned from one.
AfterUnlock(at) == IF at = "set_unlock" THEN "get" ELSE "done"

\* s.mu.Lock() is called in Set or Delete: the goroutine waits for the lock.
LockCall(w) ==
  /\ lpc[w] \in {"set", "del"}
  /\ mu' = [mu EXCEPT !.pending = @ \cup {w}]
  /\ lpc' = [lpc EXCEPT ![w] = IF @ = "set" THEN "set_wait" ELSE "del_wait"]
  /\ UNCHANGED <<store, got>>
  /\ LockFrame

\* s.mu.Lock() returns.
LockAcquire(w) ==
  /\ lpc[w] \in {"set_wait", "del_wait"}
  /\ CanLock(mu)
  /\ mu' = [mu EXCEPT !.writer = w, !.pending = @ \ {w}]
  /\ lpc' = [lpc EXCEPT ![w] = IF @ = "set_wait" THEN "set_locked" ELSE "del_locked"]
  /\ UNCHANGED <<store, got>>
  /\ LockFrame

\* Set: s.data[key] = value
SetWrite(w) ==
  /\ lpc[w] = "set_locked"
  /\ store' = Set(store, LockKey, EntryOf(w))
  /\ lpc' = [lpc EXCEPT ![w] = "set_unlock"]
  /\ UNCHANGED <<mu, got>>
  /\ LockFrame

\* Delete: delete(s.data, key)
DeleteWrite(w) ==
  /\ lpc[w] = "del_locked"
  /\ store' = Delete(store, LockKey)
  /\ lpc' = [lpc EXCEPT ![w] = "del_unlock"]
  /\ UNCHANGED <<mu, got>>
  /\ LockFrame

\* The deferred s.mu.Unlock() of Set or Delete.
Unlock(w) ==
  /\ lpc[w] \in {"set_unlock", "del_unlock"}
  /\ mu' = [mu EXCEPT !.writer = IF @ = w THEN 0 ELSE @]
  /\ lpc' = [lpc EXCEPT ![w] = AfterUnlock(@)]
  /\ UNCHANGED <<store, got>>
  /\ LockFrame

\* Get: s.mu.RLock() returns.
RLock(w) ==
  /\ lpc[w] = "get"
  /\ CanRLock(mu)
  /\ mu' = [mu EXCEPT !.readers = @ \cup {w}]
  /\ lpc' = [lpc EXCEPT ![w] = "get_locked"]
  /\ UNCHANGED <<store, got>>
  /\ LockFrame

\* Get: value, ok := s.data[key]
GetRead(w) ==
  /\ lpc[w] = "get_locked"
  /\ got' = [got EXCEPT ![w] = Get(store, LockKey)]
  /\ lpc' = [lpc EXCEPT ![w] = "get_unlock"]
  /\ UNCHANGED <<store, mu>>
  /\ LockFrame

\* The deferred s.mu.RUnlock() of Get.
RUnlock(w) ==
  /\ lpc[w] = "get_unlock"
  /\ mu' = [mu EXCEPT !.readers = @ \ {w}]
  /\ lpc' = [lpc EXCEPT ![w] = "del"]
  /\ UNCHANGED <<store, got>>
  /\ LockFrame

InitLock == InitWith({}) /\ secret = <<>> /\ kind = "memory"

NextLock ==
  \E w \in LockWorkers :
    \/ LockCall(w)
    \/ LockAcquire(w)
    \/ SetWrite(w)
    \/ DeleteWrite(w)
    \/ Unlock(w)
    \/ RLock(w)
    \/ GetRead(w)
    \/ RUnlock(w)

\* The scheduler runs a goroutine that can take a step.
SpecLock == InitLock /\ [][NextLock]_vars /\ WF_vars(NextLock)

\* ------------------------------------------------------------------ C18
\* Goroutine w is between the return of Lock and its Unlock, in Set or in
\* Delete.
Writing(w) == lpc[w] \in {"set_locked", "set_unlock", "del_locked", "del_unlock"}

\* Goroutine w is between the return of RLock and its RUnlock, in Get.
Reading(w) == lpc[w] \in {"get_locked", "get_unlock"}

\* Goroutine w has written its entry in Set.
HasSet(w) == lpc[w] \notin {"set", "set_wait", "set_locked"}

\* Goroutine w has read the map in Get.
HasRead(w) == lpc[w] \in {"get_unlock", "del", "del_wait", "del_locked", "del_unlock", "done"}

\* A Set or Delete overlaps no other Set, Delete or Get, and what a Get
\* returned is not found or the entry of a goroutine that has set it.
AtomicCalls ==
  /\ \A w \in LockWorkers : \A v \in LockWorkers \ {w} :
       Writing(w) => ~Writing(v) /\ ~Reading(v)
  /\ \A w \in LockWorkers :
       HasRead(w) =>
         \/ ~got[w].ok /\ got[w].entry = NoEntry
         \/ got[w].ok /\ \E v \in LockWorkers : HasSet(v) /\ got[w].entry = EntryOf(v)

AllDone == \A w \in LockWorkers : lpc[w] = "done"

\* C18: when the goroutines each run Set(k, n); Get(k); Delete(k) on one key
\* of the MessageStore, a Set or Delete never overlaps another Set, Delete
\* or Get, every Get returns not found or an entry some goroutine set, and
\* every goroutine terminates, so that no interleaving deadlocks.
C18_AtomicAndTerminates == []AtomicCalls /\ <>AllDone

\* Two Gets overlap, one of which has read the entry the other goroutine
\* set.
C18_Witness ==
  \E w \in LockWorkers : \E v \in LockWorkers \ {w} :
    /\ lpc[w] = "get_unlock"
    /\ Reading(v)
    /\ got[w].ok
    /\ got[w].entry = EntryOf(v)

\* ------------------------------------------- two goroutines, one event
\* The alerts two goroutines serve at the same time.
ConcRequests ==
  { Request(MethodPost, TRUE, Object(o)) : o \in
      { AlertPairs(EventA, StatusProblem, NoDetails, WithSecret(GoodSecret)),
        AlertPairs(EventA, StatusResolved, NoDetails, WithSecret(GoodSecret)) } }

\* net/http serves each request on a goroutine of its own.
InitConc == InitWith(AllWorkers) /\ secret = GoodSecret /\ kind = "memory"

NextConc ==
  \/ \E w \in AllWorkers, r \in ConcRequests : Receive(w, r)
  \/ \E w \in AllWorkers : ProblemSend(w)
  \/ \E w \in AllWorkers : ProblemSet(w)
  \/ \E w \in AllWorkers : ResolvedGet(w)
  \/ \E w \in AllWorkers : ResolvedEdit(w)
  \/ \E w \in AllWorkers : ResolvedDelete(w)
  \/ \E w \in AllWorkers : ResolvedSend(w)

SpecConc == InitConc /\ [][NextConc]_vars

\* The place in sops of the call of method op by the request goroutine w
\* serves, 0 when it has made none.
OpIndex(w, op) ==
  IF \E i \in 1..Len(sops) : sops[i].req = cur[w] /\ sops[i].op = op
  THEN CHOOSE i \in 1..Len(sops) : sops[i].req = cur[w] /\ sops[i].op = op
  ELSE 0

\* The Sets and Deletes of key k before place i of sops.
StoreWritesBefore(i, k) ==
  { j \in 1..(i - 1) : sops[j].key = k /\ sops[j].op \in {"set", "del"} }

\* The store held an entry for key k when the operation at place i was made.
OpenAt(i, k) ==
  /\ StoreWritesBefore(i, k) # {}
  /\ sops[CHOOSE j \in StoreWritesBefore(i, k) :
            \A h \in StoreWritesBefore(i, k) : h <= j].op = "set"

\* Goroutine p has served a PROBLEM and goroutine r a RESOLVED for the same
\* event, both answered 200.
ProblemAndResolvedServed(p, r) ==
  /\ p # r
  /\ Served(p) /\ Served(r)
  /\ alert[p].Status = StatusProblem /\ alert[r].Status = StatusResolved
  /\ alert[p].EventID = alert[r].EventID
  /\ code[p] = StatusOK /\ code[r] = StatusOK

\* ------------------------------------------------------------------ C19
\* The RESOLVED of r read the store, which held no entry for the event,
\* before the PROBLEM of p wrote it.
ReadBeforeWrite(p, r) ==
  /\ ProblemAndResolvedServed(p, r)
  /\ OpIndex(r, "get") < OpIndex(p, "set")
  /\ ~OpenAt(OpIndex(r, "get"), alert[r].EventID)

\* C19: the read-decide-write sequence of a request is not transactional:
\* when a RESOLVED(id) reads the store before a PROBLEM(id) writes it and
\* both are answered 200, two messages have been sent, none has been edited
\* and the entry the PROBLEM wrote for id remains in the store after both
\* requests have completed.
C19_DuplicateSend ==
  \A p \in AllWorkers, r \in AllWorkers :
    ReadBeforeWrite(p, r) =>
      /\ ops[p].send = 1 /\ ops[r].send = 1
      /\ ops[p].edit = 0 /\ ops[r].edit = 0 /\ ops[r].del = 0
      /\ loc[p].msgID # loc[r].msgID
      /\ \A i \in 1..Len(calls) :
           calls[i].req \in {cur[p], cur[r]} => calls[i].op = "send"
      /\ alert[p].EventID \in DOMAIN store
      /\ store[alert[p].EventID].MessageID = loc[p].msgID

\* The PROBLEM was received first, the RESOLVED read the store before the
\* PROBLEM wrote it, and both have completed.
C19_Witness ==
  \E p \in AllWorkers, r \in AllWorkers :
    /\ ReadBeforeWrite(p, r)
    /\ cur[p] < cur[r]
    /\ alert[p].EventID \in DOMAIN store

\* ------------------------------------------------------------------ C20
\* The Set of the PROBLEM of p landed between the Get of the RESOLVED of r,
\* which found an entry, and its Delete.
SetBetweenGetAndDelete(p, r) ==
  /\ ProblemAndResolvedServed(p, r)
  /\ OpIndex(r, "get") < OpIndex(p, "set")
  /\ OpIndex(p, "set") < OpIndex(r, "del")

\* C20: lost update: when the Set of a PROBLEM(id) lands between the Get of
\* a RESOLVED(id) that found an entry and its Delete, and both are answered
\* 200, the RESOLVED has edited an older message than the PROBLEM's and its
\* Delete has removed the entry the PROBLEM wrote, so that after both have
\* completed no entry holds the PROBLEM's message.
C20_LostUpdate ==
  \A p \in AllWorkers, r \in AllWorkers :
    SetBetweenGetAndDelete(p, r) =>
      /\ OpenAt(OpIndex(r, "get"), alert[r].EventID)
      /\ ops[r].edit = 1
      /\ \A i \in 1..Len(calls) :
           (calls[i].req = cur[r] /\ calls[i].op = "edit") =>
             /\ calls[i].id = loc[r].entry.MessageID
             /\ calls[i].id # loc[p].msgID
      /\ alert[p].EventID \notin DOMAIN store
      /\ \A k \in DOMAIN store : store[k].MessageID # loc[p].msgID

\* Both requests have completed after the PROBLEM's Set landed between the
\* RESOLVED's Get and Delete.
C20_Witness ==
  \E p \in AllWorkers, r \in AllWorkers :
    /\ SetBetweenGetAndDelete(p, r)
    /\ loc[p].msgID # 0
    /\ loc[r].entry.MessageID # 0
    /\ store = EmptyStore

\* ------------------------------------------------------------------ C21
\* One step of ServeHTTP on goroutine w after the checks.
Serve(w) ==
  \/ ProblemSend(w)
  \/ ProblemSet(w)
  \/ ResolvedGet(w)
  \/ ResolvedEdit(w)
  \/ ResolvedDelete(w)
  \/ ResolvedSend(w)

\* The scheduler runs every goroutine that can take a step: a transport or
\* store call returns and ServeHTTP goes on.
InitLive == InitWith({1}) /\ secret = GoodSecret /\ kind = "memory"

SpecLive ==
  InitLive /\ [][NextConc]_vars /\ \A w \in AllWorkers : WF_vars(Serve(w))

\* The requests that may be received.
RequestNumbers == 1..MaxRequests

\* Request n is a RESOLVED alert that passed the checks.
ResolvedAccepted(n) == n <= Len(hist) /\ hist[n].Status = StatusResolved

\* The Get of request n found an entry.
GetFound(n) ==
  \E i \in 1..Len(sops) :
    sops[i].req = n /\ sops[i].op = "get" /\ OpenAt(i, sops[i].key)

\* Request n has been answered after exactly one transport call, an edit
\* when its Get found an entry and a send otherwise, with 200 when the call
\* succeeded and 500 when it failed.
ResolvedAnswered(n) ==
  /\ ResolvedAccepted(n)
  /\ Completed(n)
  /\ \E i \in CallsOf(n) :
       /\ CallsOf(n) = {i}
       /\ calls[i].op = IF GetFound(n) THEN "edit" ELSE "send"
       /\ hist[n].code = IF calls[i].ok THEN StatusOK
                         ELSE StatusInternalServerError

\* A RESOLVED alert that passed the checks makes at most one transport
\* call, and once answered it is answered as ResolvedAnswered says.
ResolvedNeverDropped ==
  \A n \in RequestNumbers :
    ResolvedAccepted(n) =>
      /\ Cardinality(CallsOf(n)) <= 1
      /\ Completed(n) => ResolvedAnswered(n)

\* C21: a resolution is never silently dropped: every RESOLVED alert that
\* passes the checks leads to exactly one transport call, EditMessage when
\* Get finds an entry and SendMessage otherwise, and is answered 200 only if
\* that call succeeded and 500 otherwise.
C21_ResolutionNeverDropped ==
  /\ []ResolvedNeverDropped
  /\ \A n \in RequestNumbers : ResolvedAccepted(n) ~> ResolvedAnswered(n)

\* A RESOLVED alert has been answered 500 after its edit failed, and
\* another 200 after its send succeeded.
C21_Witness ==
  /\ \E n \in RequestNumbers :
       /\ ResolvedAnswered(n)
       /\ GetFound(n)
       /\ hist[n].code = StatusInternalServerError
  /\ \E n \in RequestNumbers :
       /\ ResolvedAnswered(n)
       /\ ~GetFound(n)
       /\ hist[n].code = StatusOK

\* ------------------------------------------------------------------ C22
\* The lines of a message that carry the given label.
LinesOf(text, label) == { i \in 1..Len(text) : text[i].label = label }

\* The text a message shows under the label, <<>> when it has no such line.
Shown(text, label) ==
  IF LinesOf(text, label) = {} THEN <<>>
  ELSE text[CHOOSE i \in LinesOf(text, label) : TRUE].value

\* Goroutine w has edited the message of the entry a RESOLVED alert found.
ResolvedEdited(w) ==
  /\ Served(w)
  /\ alert[w].Status = StatusResolved
  /\ alert[w].EventID \in DOMAIN pre[w]
  /\ ops[w].edit = 1

\* The message and the severity the body of the request carries, and those
\* of the entry the request found.
OwnMessage(w) == Field(req[w].object, "message")
OwnSeverity(w) == Field(req[w].object, "severity")
StoredMessage(w) == pre[w][alert[w].EventID].Message
StoredSeverity(w) == pre[w][alert[w].EventID].Severity

ResolvedAfterProblem(p, r) ==
  /\ ProblemAndResolvedServed(p, r)
  /\ ops[r].edit = 1
  /\ OpIndex(p, "set") < OpIndex(r, "get")
  /\ \A j \in StoreWritesBefore(OpIndex(r, "get"), alert[r].EventID) :
       j <= OpIndex(p, "set")

\* Goroutine r has served a RESOLVED alert that found no entry.
ResolvedWithoutEntry(r) ==
  /\ Served(r)
  /\ alert[r].Status = StatusResolved
  /\ ~OpenAt(OpIndex(r, "get"), alert[r].EventID)

\* C23: the Start Time of the message a RESOLVED alert edits is the
\* startTime of the entry, which is the Start Time of the message the latest
\* successful PROBLEM for the event sent; its End Time is the time of the
\* RESOLVED request; a RESOLVED alert without an entry shows an End Time and
\* no Start Time line.
C23_StartTimePreserved ==
  /\ \A p \in AllWorkers, r \in AllWorkers :
       ResolvedAfterProblem(p, r) =>
         /\ Shown(loc[r].text, "Start Time") = loc[r].entry.StartTime
         /\ Shown(loc[r].text, "Start Time") = Shown(loc[p].text, "Start Time")
         /\ Shown(loc[p].text, "Start Time") = FormatTime(loc[p].now)
         /\ Shown(loc[r].text, "End Time") = FormatTime(loc[r].now)
         /\ loc[p].now <= loc[r].now
  /\ \A r \in AllWorkers :
       ResolvedWithoutEntry(r) =>
         /\ LinesOf(loc[r].text, "Start Time") = {}
         /\ Shown(loc[r].text, "End Time") = FormatTime(loc[r].now)

\* A RESOLVED alert has edited the message of a PROBLEM sent at an earlier
\* time: the message shows two different times.
C23_Witness ==
  \E p \in AllWorkers, r \in AllWorkers :
    /\ ResolvedAfterProblem(p, r)
    /\ Shown(loc[r].text, "Start Time") # Shown(loc[r].text, "End Time")
    /\ Shown(loc[r].text, "Start Time") # <<>>

\* ------------------------------------------------ formatMessage on its own
\* The characters of the texts: the three that are escaped, those that end
\* or spell an entity, and a plain one.
TextChars == {"&", "<", ">", ";", "l", "t", "a"}

\* The texts of at most MaxLen characters.
Texts == UNION { [1..k -> TextChars] : k \in 0..MaxLen }

\* The text fields of ZabbixAlert that formatMessage embeds, with the label
\* of the line of each.
TextFields ==
  {"Status", "TriggerName", "Host", "Severity", "Message", "EventID"}
FieldLabel ==
  [Status |-> "Status", TriggerName |-> "Trigger", Host |-> "Host",
   Severity |-> "Severity", Message |-> "Details", EventID |-> "Event ID"]

\* A PROBLEM alert and a RESOLVED alert that carry an event ID only.
BareAlert(status) == [ZeroAlert EXCEPT !.Status = status, !.EventID = EventA]

\* The arguments of formatMessage: an alert with a text in one field, a
\* RESOLVED alert with Details preserved from the PROBLEM event, and alerts
\* of every layout.
FormatInputs ==
  { [alert |-> [BareAlert(StatusProblem) EXCEPT ![f] = t], orig |-> <<>>,
     start |-> <<>>] :
      f \in TextFields, t \in Texts }
  \cup { [alert |-> BareAlert(StatusResolved), orig |-> t, start |-> <<>>] :
           t \in Texts }
  \cup { [alert |-> [f \in DOMAIN ZeroAlert |->
                       IF f = "Status" THEN status
                       ELSE IF f \in present THEN <<"a">> ELSE <<>>],
          orig |-> orig, start |-> start] :
           status \in {StatusProblem, StatusResolved, StatusOther},
           present \in SUBSET (TextFields \ {"Status"}),
           orig \in {<<>>, <<"l">>}, start \in {<<>>, FormatTime(0)} }

\* formatMessage(a, now, startTime, origMessage) is called.
FormatCall ==
  /\ output = NotCalled
  /\ output' = formatMessage(input.alert, clock, input.start, input.orig)
  /\ UNCHANGED <<secret, store, sentMsgID, clock, calls, hist, workers, pc,
                 cur, req, alert, loc, code, pre, ops, sops, redisVars,
                 lockVars, input>>

InitFormat ==
  /\ InitHandler({}) /\ secret = <<>> /\ kind = "memory"
  /\ input \in FormatInputs
  /\ output = NotCalled

NextFormat == FormatCall

SpecFormat == InitFormat /\ [][NextFormat]_vars

\* ------------------------------------------------------------------ C24
\* The three entities.
Entities ==
  { <<"&", "a", "m", "p", ";">>, <<"&", "l", "t", ";">>, <<"&", "g", "t", ";">> }

\* An entity starts at place i of the text.
StartsEntity(v, i) ==
  \E e \in Entities : i + Len(e) - 1 <= Len(v) /\ SubSeq(v, i, i + Len(e) - 1) = e

\* The text holds no raw < or > and each of its & starts an entity.
WellEscaped(v) ==
  \A i \in 1..Len(v) :
    /\ v[i] \notin {"<", ">"}
    /\ v[i] = "&" => StartsEntity(v, i)

\* The text read back: each entity becomes the character it stands for.
RECURSIVE ReadBack(_)
ReadBack(v) ==
  IF v = <<>> THEN <<>>
  ELSE IF StartsEntity(v, 1)
       THEN (IF v[2] = "a" THEN <<"&">> ELSE IF v[2] = "l" THEN <<"<">> ELSE <<">">>)
            \o ReadBack(SubSeq(v, IF v[2] = "a" THEN 6 ELSE 5, Len(v)))
  ELSE <<Head(v)>> \o ReadBack(Tail(v))

\* How many of the three characters the text holds.
Specials(t) == Cardinality({ i \in 1..Len(t) : t[i] \in {"&", "<", ">"} })

\* How many entities start in the text.
EntityCount(v) == Cardinality({ i \in 1..Len(v) : StartsEntity(v, i) })

\* The text of the field that the line with the label embeds.
FieldText(in, f) ==
  IF f = "Message" /\ in.alert.Status = StatusResolved /\ in.orig # <<>>
  THEN in.orig ELSE in.alert[f]

\* C24: in the message formatMessage builds, the text embedded for each of
\* status, trigger name, host, severity, details and event ID holds no raw
\* < or >, each & in it starts one of &amp;, &lt; and &gt;, it holds one
\* entity for each &, < and > of the field, and read back it is the field:
\* each occurrence is replaced exactly once.
C24_EscapedOnce ==
  output # NotCalled =>
    \A f \in TextFields :
      LET v == Shown(output, FieldLabel[f])
          t == FieldText(input, f)
      IN  /\ WellEscaped(v)
          /\ ReadBack(v) = t
          /\ EntityCount(v) = Specials(t)
          /\ (LinesOf(output, FieldLabel[f]) = {}) <=> (t = <<>> /\ f # "Status")

\* A field that holds the three characters, or an & before two letters, has
\* been embedded.
C24_Witness ==
  /\ output # NotCalled
  /\ \E f \in TextFields :
       /\ FieldText(input, f) \in { <<"<", "&", ">">>, <<"&", "l", "t">> }
       /\ Len(Shown(output, FieldLabel[f])) > Len(FieldText(input, f))

\* ----------------------------------------------------------- config.Load
\* The environment variables Load reads and the keys of fileConfig.
EnvNames ==
  {"CONFIG_FILE", "TELEGRAM_BOT_TOKEN", "TELEGRAM_CHAT_ID", "SERVER_ADDR",
   "SERVER_SECRET", "REDIS_ADDR", "REDIS_PASSWORD", "REDIS_DB"}
YAMLKeys ==
  {"telegram_bot_token", "telegram_chat_id", "server_addr", "server_secret",
   "redis_addr", "redis_password", "redis_db"}

\* The default server address ":8080".
DefaultServerAddr == <<":", "8", "0", "8", "0">>

\* os.Getenv: the value of the variable, "" when it is not set.
Getenv(env, name) == env[name]

\* fileConfig{}
EmptyFileConfig == [k \in YAMLKeys |-> <<>>]

\* The file system as loadFile meets it: whether the file at the path it
\* reads exists, whether it is YAML, and the values of its keys.
FileSystem(exists, wellFormed, values) ==
  [exists |-> exists, wellFormed |-> wellFormed, values |-> values]

\* loadFile: the file named by CONFIG_FILE, or config.yaml, which may be
\* missing.
loadFile(env, fs) ==
  LET explicit == Getenv(env, "CONFIG_FILE") # <<>>
  IN  IF ~fs.exists
      THEN (IF ~explicit THEN [fc |-> EmptyFileConfig, err |-> ""]
            ELSE [fc |-> EmptyFileConfig, err |-> "reading config file"])
      ELSE IF ~fs.wellFormed
           THEN [fc |-> EmptyFileConfig, err |-> "parsing config file"]
      ELSE [fc |-> fs.values, err |-> ""]

\* strconv.ParseInt(s, 10, 64) and strconv.Atoi(s): an optional sign and
\* decimal digits.
ParseInt(t) ==
  LET signed == t # <<>> /\ Head(t) \in {"+", "-"}
      digits == IF signed THEN Tail(t) ELSE t
  IN  IF ~IsNumber(digits) THEN [n |-> 0, err |-> TRUE]
      ELSE [n |-> IF signed /\ Head(t) = "-" THEN 0 - ParseDigits(digits)
                  ELSE ParseDigits(digits),
            err |-> FALSE]

\* Config{...}
Config(token, chatID, addr, serverSecret, redisAddr, redisPassword, redisDB) ==
  [TelegramToken |-> token, ChatID |-> chatID, ServerAddr |-> addr,
   ServerSecret |-> serverSecret, RedisAddr |-> redisAddr,
   RedisPassword |-> redisPassword, RedisDB |-> redisDB]

\* The nil *Config.
NoConfig == Config(<<>>, 0, <<>>, <<>>, <<>>, <<>>, 0)

\* FromEnvOrFile that prefers the file.
FromFileOrEnv(env, fc, name, key) ==
  IF fc[key] # <<>> THEN fc[key] ELSE Getenv(env, name)

\* The value of the environment variable, or the file's when it is empty.
FromEnvOrFile(env, fc, name, key) ==
  IF Getenv(env, name) # <<>> THEN Getenv(env, name) ELSE fc[key]

\* Load that parses REDIS_DB only when a Redis address is configured.
LoadChecksDBWithAddr(env, fs) ==
  LET f == loadFile(env, fs)
      token == FromEnvOrFile(env, f.fc, "TELEGRAM_BOT_TOKEN", "telegram_bot_token")
      chatIDStr == FromEnvOrFile(env, f.fc, "TELEGRAM_CHAT_ID", "telegram_chat_id")
      fileAddr == FromEnvOrFile(env, f.fc, "SERVER_ADDR", "server_addr")
      addr == IF fileAddr = <<>> THEN DefaultServerAddr ELSE fileAddr
      serverSecret == FromEnvOrFile(env, f.fc, "SERVER_SECRET", "server_secret")
      redisAddr == FromEnvOrFile(env, f.fc, "REDIS_ADDR", "redis_addr")
      redisPassword == FromEnvOrFile(env, f.fc, "REDIS_PASSWORD", "redis_password")
      redisDBStr == IF redisAddr = <<>> THEN <<>>
                    ELSE FromEnvOrFile(env, f.fc, "REDIS_DB", "redis_db")
  IN  IF f.err # "" THEN [cfg |-> NoConfig, err |-> f.err]
      ELSE IF token = <<>>
           THEN [cfg |-> NoConfig, err |-> "TELEGRAM_BOT_TOKEN is required"]
      ELSE IF chatIDStr = <<>>
           THEN [cfg |-> NoConfig, err |-> "TELEGRAM_CHAT_ID is required"]
      ELSE IF ParseInt(chatIDStr).err
           THEN [cfg |-> NoConfig, err |-> "TELEGRAM_CHAT_ID must be a valid integer"]
      ELSE IF redisDBStr # <<>> /\ ParseInt(redisDBStr).err
           THEN [cfg |-> NoConfig, err |-> "REDIS_DB must be a valid integer"]
      ELSE [cfg |-> Config(token, ParseInt(chatIDStr).n, addr, serverSecret,
                           redisAddr, redisPassword,
                           IF redisDBStr = <<>> THEN 0 ELSE ParseInt(redisDBStr).n),
            err |-> ""]

\* Load: (*Config, error), the error being "" for nil.
Load(env, fs) ==
  LET f == loadFile(env, fs)
      token == FromEnvOrFile(env, f.fc, "TELEGRAM_BOT_TOKEN", "telegram_bot_token")
      chatIDStr == FromEnvOrFile(env, f.fc, "TELEGRAM_CHAT_ID", "telegram_chat_id")
      fileAddr == FromEnvOrFile(env, f.fc, "SERVER_ADDR", "server_addr")
      addr == IF fileAddr = <<>> THEN DefaultServerAddr ELSE fileAddr
      serverSecret == FromEnvOrFile(env, f.fc, "SERVER_SECRET", "server_secret")
      redisAddr == FromEnvOrFile(env, f.fc, "REDIS_ADDR", "redis_addr")
      redisPassword == FromEnvOrFile(env, f.fc, "REDIS_PASSWORD", "redis_password")
      redisDBStr == FromEnvOrFile(env, f.fc, "REDIS_DB", "redis_db")
  IN  IF f.err # "" THEN [cfg |-> NoConfig, err |-> f.err]
      ELSE IF token = <<>>
           THEN [cfg |-> NoConfig, err |-> "TELEGRAM_BOT_TOKEN is required"]
      ELSE IF chatIDStr = <<>>
           THEN [cfg |-> NoConfig, err |-> "TELEGRAM_CHAT_ID is required"]
      ELSE IF ParseInt(chatIDStr).err
           THEN [cfg |-> NoConfig, err |-> "TELEGRAM_CHAT_ID must be a valid integer"]
      ELSE IF redisDBStr # <<>> /\ ParseInt(redisDBStr).err
           THEN [cfg |-> NoConfig, err |-> "REDIS_DB must be a valid integer"]
      ELSE [cfg |-> Config(token, ParseInt(chatIDStr).n, addr, serverSecret,
                           redisAddr, redisPassword,
                           IF redisDBStr = <<>> THEN 0 ELSE ParseInt(redisDBStr).n),
            err |-> ""]

\* The values the environment and the file give the string settings, and
\* those they give the two numeric ones.
EnvText == <<"e">>
FileText == <<"f">>
EnvNumbers == { <<>>, <<"7">>, <<"x">> }
FileNumbers == { <<>>, <<"-", "1", "2">>, <<"1", "y">> }

\* The environments: CONFIG_FILE set or not, each variable set or not.
Environments ==
  { [n \in EnvNames |->
       IF n = "TELEGRAM_CHAT_ID" THEN chat
       ELSE IF n = "REDIS_DB" THEN db
       ELSE IF n \in set THEN EnvText ELSE <<>>] :
      set \in SUBSET (EnvNames \ {"TELEGRAM_CHAT_ID", "REDIS_DB"}),
      chat \in EnvNumbers, db \in EnvNumbers }

\* The files: each key present or not.
FileValues ==
  { [k \in YAMLKeys |->
       IF k = "telegram_chat_id" THEN chat
       ELSE IF k = "redis_db" THEN db
       ELSE IF k \in set THEN FileText ELSE <<>>] :
      set \in SUBSET (YAMLKeys \ {"telegram_chat_id", "redis_db"}),
      chat \in FileNumbers, db \in FileNumbers }

\* The file systems: no file, a file that is no YAML, a YAML file.
FileSystems ==
  { FileSystem(FALSE, FALSE, EmptyFileConfig),
    FileSystem(TRUE, FALSE, EmptyFileConfig) }
  \cup { FileSystem(TRUE, TRUE, v) : v \in FileValues }

\* Load() is called.
LoadCall ==
  /\ output = NotCalled
  /\ output' = Load(input.env, input.fs)
  /\ UNCHANGED <<secret, store, sentMsgID, clock, calls, hist, workers, pc,
                 cur, req, alert, loc, code, pre, ops, sops, redisVars,
                 lockVars, input>>

InitConfig ==
  /\ InitHandler({}) /\ secret = <<>> /\ kind = "memory"
  /\ input \in { [env |-> e, fs |-> f] : e \in Environments, f \in FileSystems }
  /\ output = NotCalled

NextConfig == LoadCall

SpecConfig == InitConfig /\ [][NextConfig]_vars

\* ------------------------------------------------------------------ C25
\* Load has returned.
Loaded == output # NotCalled

\* The file Load was given is a YAML file.
FileRead == input.fs.exists /\ input.fs.wellFormed

\* The value of a setting: the environment's when it is non-empty, else the
\* file's, else "".
Layered(name, key) ==
  IF input.env[name] # <<>> THEN input.env[name]
  ELSE IF FileRead THEN input.fs.values[key]
  ELSE <<>>

\* The texts that spell an integer, with the integer.
IntegerTexts == { <<<<"7">>, 7>>, <<<<"-", "1", "2">>, -12>> }
IsIntegerText(t) == \E p \in IntegerTexts : p[1] = t
IntegerOf(t) == (CHOOSE p \in IntegerTexts : p[1] = t)[2]

\* C25: when Load returns a Config, each of token, chat ID, server address,
\* server secret, Redis address, Redis password and Redis DB is the
\* environment variable's value when that is non-empty, otherwise the YAML
\* file's value, otherwise the default: ":8080" for the server address,
\* empty for the secret and the Redis settings, 0 for the Redis DB.
C25_Layering ==
  (Loaded /\ output.err = "") =>
    /\ output.cfg.TelegramToken = Layered("TELEGRAM_BOT_TOKEN", "telegram_bot_token")
    /\ output.cfg.ChatID = IntegerOf(Layered("TELEGRAM_CHAT_ID", "telegram_chat_id"))
    /\ output.cfg.ServerAddr =
         IF Layered("SERVER_ADDR", "server_addr") = <<>> THEN DefaultServerAddr
         ELSE Layered("SERVER_ADDR", "server_addr")
    /\ output.cfg.ServerSecret = Layered("SERVER_SECRET", "server_secret")
    /\ output.cfg.RedisAddr = Layered("REDIS_ADDR", "redis_addr")
    /\ output.cfg.RedisPassword = Layered("REDIS_PASSWORD", "redis_password")
    /\ output.cfg.RedisDB =
         IF Layered("REDIS_DB", "redis_db") = <<>> THEN 0
         ELSE IntegerOf(Layered("REDIS_DB", "redis_db"))

\* Load has returned a Config that takes the secret from the environment
\* over the file's, the chat ID from the file and the default address.
C25_Witness ==
  /\ Loaded /\ output.err = ""
  /\ FileRead
  /\ input.env["SERVER_SECRET"] # <<>>
  /\ input.fs.values["server_secret"] # <<>>
  /\ input.fs.values["server_secret"] # input.env["SERVER_SECRET"]
  /\ output.cfg.ServerSecret = input.env["SERVER_SECRET"]
  /\ input.env["TELEGRAM_CHAT_ID"] = <<>>
  /\ output.cfg.ChatID = -12
  /\ output.cfg.ServerAddr = DefaultServerAddr
  /\ output.cfg.RedisAddr = <<>> /\ output.cfg.RedisDB = 0

\* ------------------------------------------------------------------ C26
\* CONFIG_FILE names a file that does not exist.
ExplicitFileMissing == input.env["CONFIG_FILE"] # <<>> /\ ~input.fs.exists

\* The cases in which Load is to fail.
ConfigError ==
  \/ Layered("TELEGRAM_BOT_TOKEN", "telegram_bot_token") = <<>>
  \/ ~IsIntegerText(Layered("TELEGRAM_CHAT_ID", "telegram_chat_id"))
  \/ /\ input.env["REDIS_DB"] # <<>>
     /\ ~IsIntegerText(input.env["REDIS_DB"])
  \/ ExplicitFileMissing

\* C26: Load returns an error and no Config when the token is missing from
\* environment and file, when the chat ID is missing or no integer, when
\* REDIS_DB is set and no integer, even without a Redis address, or when
\* CONFIG_FILE names a file that does not exist; with CONFIG_FILE unset, a
\* missing config.yaml is no error.
C26_ConfigErrors ==
  Loaded =>
    /\ ConfigError => output.err # "" /\ output.cfg = NoConfig
    /\ (~input.fs.exists /\ ~ConfigError) => output.err = ""

\* Load has failed on REDIS_DB although no Redis address is configured and
\* token and chat ID are in order.
C26_Witness ==
  /\ Loaded
  /\ output.err = "REDIS_DB must be a valid integer"
  /\ output.cfg = NoConfig
  /\ Layered("REDIS_ADDR", "redis_addr") = <<>>
  /\ input.env["REDIS_DB"] # <<>>
  /\ ~input.fs.exists

\* --------------------------------------------- the event's state machine
\* The event IDs the alerts carry.
EventIDs == {EventA, EventB}

\* Request n made a transport call of method op, and it succeeded.
CallSucceeded(n, op) ==
  \E i \in CallsOf(n) : calls[i].op = op /\ calls[i].ok

\* Request n was a PROBLEM whose send succeeded: NoOpenEvent -> OpenEvent.
Opened(n) ==
  /\ hist[n].Status = StatusProblem
  /\ Completed(n)
  /\ CallSucceeded(n, "send")

\* Request n was a RESOLVED whose edit succeeded: OpenEvent -> NoOpenEvent.
Closed(n) ==
  /\ hist[n].Status = StatusResolved
  /\ Completed(n)
  /\ CallSucceeded(n, "edit")

\* The requests for event id that took a transition of the machine.
Transitions(id) ==
  { n \in 1..Len(hist) : hist[n].EventID = id /\ (Opened(n) \/ Closed(n)) }

\* The latest of them.
LastTransition(id) ==
  CHOOSE n \in Transitions(id) : \A m \in Transitions(id) : m <= n

\* The state of the two-state machine of event id after the requests of hist.
EventState(id) ==
  IF Transitions(id) # {} /\ Opened(LastTransition(id))
  THEN "OpenEvent" ELSE "NoOpenEvent"

\* Request n was answered 500 after a failed call of method op.
FailedCall(n, op) ==
  /\ hist[n].code = StatusInternalServerError
  /\ \E i \in CallsOf(n) : calls[i].op = op /\ ~calls[i].ok

\* C27: with requests handled one at a time on the in-memory store, the
\* store holds an entry for an event ID exactly when the machine of that ID
\* is in OpenEvent, that is, when the latest request for it that took a
\* transition was a PROBLEM whose send succeeded; the entry then holds the
\* message that PROBLEM sent.  Failed sends, failed edits, rejected and
\* informational requests and a RESOLVED without an entry take no transition.
C27_RefinesEventMachine ==
  \A id \in EventIDs :
    /\ Get(store, id).ok <=> EventState(id) = "OpenEvent"
    /\ Get(store, id).ok =>
         OnlyCall(LastTransition(id), "send", Get(store, id).entry.MessageID)

\* An event was opened, a RESOLVED for it failed on its edit and left it
\* open, and a later RESOLVED closed it.
C27_Witness ==
  \E id \in EventIDs :
    /\ Len(hist) = 3
    /\ \A n \in 1..3 : hist[n].EventID = id
    /\ Opened(1)
    /\ hist[2].Status = StatusResolved /\ FailedCall(2, "edit")
    /\ Closed(3)
    /\ ~Get(store, id).ok

\* ------------------------------------------ two goroutines, two events
\* The alerts two goroutines serve at the same time, for two events.
EventRequests ==
  { Request(MethodPost, TRUE, Object(o)) : o \in
      { AlertPairs(EventA, StatusProblem, NoDetails, WithSecret(GoodSecret)),
        AlertPairs(EventA, StatusResolved, NoDetails, WithSecret(GoodSecret)),
        AlertPairs(EventA, StatusOther, NoDetails, WithSecret(GoodSecret)),
        AlertPairs(EventB, StatusProblem, NoDetails, WithSecret(GoodSecret)),
        AlertPairs(EventB, StatusResolved, NoDetails, WithSecret(GoodSecret)) } }

NextEvents ==
  \/ \E w \in AllWorkers, r \in EventRequests : Receive(w, r)
  \/ \E w \in AllWorkers : ProblemSend(w)
  \/ \E w \in AllWorkers : ProblemSet(w)
  \/ \E w \in AllWorkers : ResolvedGet(w)
  \/ \E w \in AllWorkers : ResolvedEdit(w)
  \/ \E w \in AllWorkers : ResolvedDelete(w)
  \/ \E w \in AllWorkers : ResolvedSend(w)
  \/ \E w \in AllWorkers : InfoSend(w)

\* The clock stands still while the requests are served: no request reads
\* another's time, and the key a request touches does not depend on it.
InitEvents ==
  /\ InitAt(AllWorkers, MaxClock)
  /\ input = NotCalled /\ output = NotCalled
  /\ secret = GoodSecret /\ kind = "memory"

SpecEvents == InitEvents /\ [][NextEvents]_vars

\* The transport call at place j was a successful send made for a PROBLEM
\* of event id.
ProblemHandle(j, id) ==
  /\ calls[j].op = "send" /\ calls[j].ok
  /\ hist[calls[j].req].Status = StatusProblem
  /\ hist[calls[j].req].EventID = id

\* C28: under every interleaving of two goroutines on the in-memory store,
\* every EditMessage is made by a RESOLVED request and targets the message ID
\* that an earlier successful SendMessage of a PROBLEM with the same event ID
\* returned; never the ID of a send for another event, of a RESOLVED or
\* informational send, or an ID that no send returned.
C28_EditsTargetOwnProblem ==
  \A i \in 1..Len(calls) :
    calls[i].op = "edit" =>
      /\ hist[calls[i].req].Status = StatusResolved
      /\ \E j \in 1..(i - 1) :
           /\ ProblemHandle(j, hist[calls[i].req].EventID)
           /\ calls[j].id = calls[i].id

\* An edit was made after a send that returned a handle for another event or
\* for an informational alert, that send itself made after the PROBLEM's.
C28_Witness ==
  \E i \in 1..Len(calls) : \E k \in 1..(i - 1) : \E j \in 1..(k - 1) :
    /\ calls[i].op = "edit" /\ calls[i].ok
    /\ ProblemHandle(j, hist[calls[i].req].EventID)
    /\ calls[j].id = calls[i].id
    /\ calls[k].op = "send" /\ calls[k].ok
    /\ ~ProblemHandle(k, hist[calls[i].req].EventID)

\* C29: every request makes at most one transport call, so never a send and
\* an edit; every transport call is made by a request that passed the
\* checks; a failed call ends its request with 500, and a request answered
\* 200 made exactly one call, which succeeded.
C29_OneTransportCall ==
  /\ \A i \in 1..Len(calls) :
       /\ calls[i].req \in 1..Len(hist)
       /\ ~calls[i].ok => hist[calls[i].req].code = StatusInternalServerError
  /\ \A n \in 1..Len(hist) :
       /\ Cardinality(CallsOf(n)) <= 1
       /\ hist[n].code = StatusOK =>
            \E i \in CallsOf(n) : CallsOf(n) = {i} /\ calls[i].ok

\* A RESOLVED failed on its edit and made no other call; the alert source
\* sent it again, and that request edited the message and was answered 200.
C29_Witness ==
  /\ Len(hist) = 3
  /\ Opened(1)
  /\ hist[2].Status = StatusResolved /\ FailedCall(2, "edit")
  /\ CallsOf(2) # {} /\ Cardinality(CallsOf(2)) = 1
  /\ Closed(3) /\ hist[3].code = StatusOK
  /\ hist[3].EventID = hist[2].EventID
  /\ Len(calls) = 3

\* C30: under any interleaving, a step changes the store entry of an event
\* ID only when it is a step of a request for that very event ID: a request
\* for event A never creates, changes or deletes the entry of event B.
C30_OtherEntriesUntouched ==
  [][\A k \in EventIDs :
       Get(store', k) # Get(store, k) =>
         \E w \in workers :
           /\ pc'[w] # pc[w]
           /\ cur[w] # 0
           /\ hist[cur[w]].EventID = k]_vars

\* Event B was opened between the Set and the Delete of event A, and its
\* entry is still the one that its PROBLEM stored.
C30_Witness ==
  \E i \in 1..Len(sops) : \E j \in 1..(i - 1) : \E h \in 1..(j - 1) :
    /\ sops[h] = StoreOp(sops[h].req, "set", EventA)
    /\ sops[j] = StoreOp(sops[j].req, "set", EventB)
    /\ sops[i] = StoreOp(sops[i].req, "del", EventA)
    /\ ~Get(store, EventA).ok
    /\ Get(store, EventB).ok
    /\ OnlyCall(sops[j].req, "send", Get(store, EventB).entry.MessageID)

\* The step is the Delete of a RESOLVED request for event k made after its
\* EditMessage succeeded.
DeleteAfterEdit(k) ==
  \E w \in workers :
    /\ pc[w] = "resolved_delete" /\ pc'[w] = "done"
    /\ hist[cur[w]].EventID = k
    /\ hist[cur[w]].Status = StatusResolved
    /\ CallSucceeded(cur[w], "edit")

\* An entry was stored for event k and no RESOLVED for k had its edit succeed.
NeverResolved(k) ==
  /\ \E i \in 1..Len(sops) : sops[i] = StoreOp(sops[i].req, "set", k)
  /\ \A n \in 1..Len(hist) :
       hist[n].EventID = k /\ hist[n].Status = StatusResolved
         => ~CallSucceeded(n, "edit")

\* C31: entries do not expire.  The only step after which an entry is gone is
\* the Delete of a RESOLVED request for its event whose EditMessage
\* succeeded, and the entry of an event that was never resolved with success
\* is in the store in every later state, whatever requests for other events
\* are served meanwhile.
C31_NoExpiry ==
  /\ [][\A k \in EventIDs :
          Get(store, k).ok /\ ~Get(store', k).ok => DeleteAfterEdit(k)]_vars
  /\ [](\A k \in EventIDs : NeverResolved(k) => Get(store, k).ok)

\* Event B is open, a RESOLVED for it failed on its edit, a request for event
\* A was answered 200 after that, and the entry of B is still in the store.
C31_Witness ==
  \E b \in 1..Len(hist) : \E r \in 1..Len(hist) : \E a \in 1..Len(hist) :
    /\ b < r /\ r < a
    /\ hist[b].EventID = EventB /\ Opened(b)
    /\ hist[r].EventID = EventB /\ hist[r].Status = StatusResolved
    /\ FailedCall(r, "edit")
    /\ hist[a].EventID = EventA /\ hist[a].code = StatusOK
    /\ NeverResolved(EventB)
    /\ OnlyCall(b, "send", Get(store, EventB).entry.MessageID)

\* ------------------------------------------ two RESOLVED for one event
\* The place in sops of the Get of request n, 0 when it has made none.
GetIndex(n) ==
  IF \E i \in 1..Len(sops) : sops[i].req = n /\ sops[i].op = "get"
  THEN CHOOSE i \in 1..Len(sops) : sops[i].req = n /\ sops[i].op = "get"
  ELSE 0

\* The Sets and Deletes of key k made between places i and j of sops.
StoreWritesBetween(i, j, k) ==
  { h \in (i + 1)..(j - 1) : sops[h].key = k /\ sops[h].op \in {"set", "del"} }

\* The message ID of the entry that key k held at place i of sops: the one
\* that the request of the last Set before i was given by its send.
HandleAt(i, k) ==
  CallID(sops[CHOOSE j \in StoreWritesBefore(i, k) :
                \A h \in StoreWritesBefore(i, k) : h <= j].req)

\* Requests m and n are RESOLVED for the same event, and both found the
\* same entry: m's Get, then n's Get, nothing written to the key in between.
Racing(m, n) ==
  /\ m # n
  /\ hist[m].Status = StatusResolved /\ hist[n].Status = StatusResolved
  /\ hist[m].EventID = hist[n].EventID
  /\ GetIndex(m) # 0 /\ GetIndex(m) < GetIndex(n)
  /\ OpenAt(GetIndex(m), hist[m].EventID)
  /\ StoreWritesBetween(GetIndex(m), GetIndex(n), hist[m].EventID) = {}

\* The pairs of requests served so far.
RequestPairs == (1..Len(hist)) \X (1..Len(hist))

\* Every transport call of request n is an EditMessage of message id.
EditsOnly(n, id) ==
  \A i \in CallsOf(n) : calls[i].op = "edit" /\ calls[i].id = id

\* No Set of key k was made after place i of sops.
NoSetAfter(i, k) ==
  \A h \in (i + 1)..Len(sops) : ~(sops[h].key = k /\ sops[h].op = "set")

\* C32 as the specification states it: two RESOLVED that both found the
\* entry both edit the same message, both respond 200 and make no send, and
\* the entry is absent once both have completed.
C32_AsStated ==
  \A p \in RequestPairs :
    Racing(p[1], p[2]) /\ Completed(p[1]) /\ Completed(p[2]) =>
      /\ EditsOnly(p[1], HandleAt(GetIndex(p[1]), hist[p[1]].EventID))
      /\ EditsOnly(p[2], HandleAt(GetIndex(p[1]), hist[p[1]].EventID))
      /\ hist[p[1]].code = StatusOK /\ hist[p[2]].code = StatusOK
      /\ ~Get(store, hist[p[1]].EventID).ok

\* C32: two concurrent RESOLVED for the same open event can both find the
\* entry before either deletes it.  Both then call EditMessage with the same
\* message ID and neither makes a SendMessage; each responds 200 when its own
\* edit succeeded and 500 when it failed; once both have completed, the
\* entry is absent when at least one edit succeeded and no PROBLEM has
\* stored it again.
C32_BothEditSameMessage ==
  \A p \in RequestPairs :
    Racing(p[1], p[2]) =>
      LET k == hist[p[1]].EventID
          id == HandleAt(GetIndex(p[1]), k)
      IN  /\ EditsOnly(p[1], id) /\ EditsOnly(p[2], id)
          /\ \A n \in {p[1], p[2]} :
               Completed(n) =>
                 /\ CallsOf(n) # {}
                 /\ hist[n].code =
                      IF Succeeded(n) THEN StatusOK ELSE StatusInternalServerError
          /\ ( /\ Completed(p[1]) /\ Completed(p[2])
               /\ Succeeded(p[1]) \/ Succeeded(p[2])
               /\ NoSetAfter(GetIndex(p[1]), k) )
             => ~Get(store, k).ok

\* Two RESOLVED found the same entry, each before the other's Delete; both
\* edited the one message, both were answered 200, and the entry is gone.
C32_Witness ==
  \E p \in RequestPairs :
    /\ Racing(p[1], p[2])
    /\ \E d \in 1..Len(sops) :
         /\ sops[d] = StoreOp(p[1], "del", hist[p[1]].EventID)
         /\ GetIndex(p[2]) < d
    /\ hist[p[1]].code = StatusOK /\ hist[p[2]].code = StatusOK
    /\ \E i \in CallsOf(p[1]) : \E j \in CallsOf(p[2]) :
         /\ calls[i].op = "edit" /\ calls[j].op = "edit"
         /\ calls[i].id = calls[j].id
    /\ ~Get(store, hist[p[1]].EventID).ok

\* ----------------------------------- failed writes of the networked store
\* The place in sops (and trace) of the call of method op by request n, 0
\* when it has made none.
OpPlace(n, op) ==
  IF \E i \in 1..Len(sops) : sops[i].req = n /\ sops[i].op = op
  THEN CHOOSE i \in 1..Len(sops) : sops[i].req = n /\ sops[i].op = op
  ELSE 0

\* Request n made the write op on the store and the backend failed it.
WriteFailed(n, op) ==
  /\ OpPlace(n, op) # 0
  /\ trace[OpPlace(n, op)].reply.err # "none"

\* Request m is a later RESOLVED for key k whose Get comes after place i
\* with no write to k in between.
LaterResolved(i, m, k) ==
  /\ hist[m].Status = StatusResolved /\ hist[m].EventID = k
  /\ OpPlace(m, "get") > i
  /\ StoreWritesBetween(i, OpPlace(m, "get"), k) = {}

\* Every transport call of request n is a SendMessage.
SendsOnly(n) == \A i \in CallsOf(n) : calls[i].op = "send"

\* C33 as the specification states it: a failed Delete leaves the entry and
\* a failed Set stores none, the request answering 200, and the later
\* RESOLVED edits the same message, respectively sends a new one.
C33_AsStated ==
  \A n \in 1..Len(hist) :
    /\ WriteFailed(n, "del") =>
         /\ hist[n].code = StatusOK
         /\ hist[n].EventID \in DOMAIN trace[OpPlace(n, "del")].after
         /\ \A m \in 1..Len(hist) :
              LaterResolved(OpPlace(n, "del"), m, hist[n].EventID) /\ Completed(m)
                => CallsOf(m) # {} /\ EditsOnly(m, CallID(n))
    /\ WriteFailed(n, "set") =>
         /\ hist[n].code = StatusOK
         /\ hist[n].EventID \notin DOMAIN trace[OpPlace(n, "set")].after
         /\ \A m \in 1..Len(hist) :
              LaterResolved(OpPlace(n, "set"), m, hist[n].EventID) /\ Completed(m)
                => CallsOf(m) # {} /\ SendsOnly(m)

\* The failed write at place i did not reach the server.
NotApplied(i) == ~trace[i].reply.applied

\* The backend answered the Get of request m.
GetAnswered(m) == trace[OpPlace(m, "get")].reply.err = "none"

\* C33: with the networked store a request whose Delete or Set fails still
\* responds 200.  When the failed command did not take effect on the server,
\* the server holds what it held before: after a failed Delete the entry
\* remains, and a later RESOLVED for the event whose Get is answered finds it
\* and edits the same message again, sending none; after a failed Set of an
\* event that had no entry there is none, and a later RESOLVED whose Get is
\* answered sends a new message.
C33_FailedWrites ==
  \A n \in 1..Len(hist) :
    /\ WriteFailed(n, "del") =>
         LET d == OpPlace(n, "del")
             k == hist[n].EventID
         IN  /\ hist[n].code = StatusOK
             /\ NotApplied(d) =>
                  /\ trace[d].after = trace[d].before
                  /\ k \in DOMAIN trace[d].after
                  /\ \A m \in 1..Len(hist) :
                       LaterResolved(d, m, k) /\ GetAnswered(m) =>
                         /\ trace[OpPlace(m, "get")].ok
                         /\ EditsOnly(m, CallID(n))
                         /\ Completed(m) => CallsOf(m) # {}
    /\ WriteFailed(n, "set") =>
         LET t == OpPlace(n, "set")
             k == hist[n].EventID
         IN  /\ hist[n].code = StatusOK
             /\ NotApplied(t) =>
                  /\ trace[t].after = trace[t].before
                  /\ \A m \in 1..Len(hist) :
                       ( /\ LaterResolved(t, m, k)
                         /\ k \notin DOMAIN trace[t].before )
                       => /\ ~trace[OpPlace(m, "get")].ok
                          /\ SendsOnly(m)
                          /\ Completed(m) => CallsOf(m) # {}

\* The Delete of a RESOLVED failed without effect, the request was answered
\* 200, and the next RESOLVED for the event has edited the same message.
C33_Witness ==
  \E n \in 1..Len(hist) : \E m \in 1..Len(hist) :
    /\ WriteFailed(n, "del") /\ NotApplied(OpPlace(n, "del"))
    /\ hist[n].code = StatusOK
    /\ LaterResolved(OpPlace(n, "del"), m, hist[n].EventID)
    /\ GetAnswered(m)
    /\ hist[m].code = StatusOK
    /\ OnlyCall(m, "edit", CallID(n))

\* ------------------------------------------------------------ termination
\* Requests of every kind: accepted ones, and ones that each check refuses.
LiveRequests ==
  { Request(MethodPost, TRUE, Object(o)) : o \in
      { AlertPairs(EventA, StatusProblem, NoDetails, WithSecret(GoodSecret)),
        AlertPairs(EventA, StatusResolved, NoDetails, WithSecret(GoodSecret)),
        AlertPairs(EventA, StatusProblem, NoDetails, WithSecret(WrongSecret)) } }
  \cup { Request(MethodPost, FALSE, EmptyObject),
         Request("GET", FALSE, EmptyObject) }

\* The steps of ServeHTTP on the RedisStore after the checks, for goroutine w.
ServeNet(w) ==
  \/ ProblemSend(w)
  \/ RedisProblemSet(w)
  \/ RedisResolvedGet(w)
  \/ ResolvedEdit(w)
  \/ RedisResolvedDelete(w)
  \/ ResolvedSend(w)

\* At most MaxLiveRequests requests pass the checks.
NextNetLive ==
  \/ \E w \in AllWorkers, r \in LiveRequests :
       Len(hist) < MaxLiveRequests /\ Receive(w, r)
  \/ \E w \in AllWorkers : ServeNet(w)

\* The goroutine that serves them.
LiveWorkers == {1}

\* One goroutine on the RedisStore, the clock standing still.
InitNetLive ==
  /\ InitAt(LiveWorkers, MaxClock)
  /\ input = NotCalled /\ output = NotCalled
  /\ secret = GoodSecret /\ kind = "redis"

\* Every transport call returns, and every call of the RedisStore returns
\* when the server answers or when redisOpTimeout has elapsed: a goroutine
\* that is in a call goes on.
SpecNetLive ==
  InitNetLive /\ [][NextNetLive]_vars /\ \A w \in LiveWorkers : WF_vars(ServeNet(w))

\* The statuses ServeHTTP writes.
ResponseStatuses ==
  {StatusOK, StatusBadRequest, StatusUnauthorized, StatusMethodNotAllowed,
   StatusInternalServerError}

\* Goroutine w is inside ServeHTTP.
Serving(w) == pc[w] \notin {"idle", "done"}

\* A goroutine that has returned wrote one of the statuses, and one that is
\* still serving has written none.
OneResponse ==
  \A w \in AllWorkers :
    /\ pc[w] = "done" => code[w] \in ResponseStatuses
    /\ Serving(w) => code[w] = 0

\* C34: provided every transport call returns, every request terminates with
\* exactly one response status out of 200, 400, 401, 405 and 500; a store
\* call never holds the goroutine for ever, a call of the networked store
\* returning its result or, at the latest when its timeout has elapsed, a
\* failure.
C34_EveryRequestTerminates ==
  /\ []OneResponse
  /\ \A w \in LiveWorkers : Serving(w) ~> (pc[w] = "done")

\* A request was answered 200 although a call of the store timed out.
C34_Witness ==
  \E w \in AllWorkers : \E i \in 1..Len(trace) :
    /\ Served(w) /\ code[w] = StatusOK
    /\ sops[i].req = cur[w]
    /\ trace[i].reply.err = "timeout"

\* ----------------------------------------------------------------- main
\* msgStore := store.New(): the store main builds for the configuration.
msgStore(cfg) == "memory"

\* No store has been built.
NoStore == "none"

\* main after config.Load(): it builds the store and the handler and serves.
\* On a configuration error it has exited (log.Fatalf).
mainServe ==
  /\ output # NotCalled
  /\ output.err = ""
  /\ workers = {}
  /\ kind' = msgStore(output.cfg)
  /\ secret' = output.cfg.ServerSecret
  /\ store' = EmptyStore
  /\ workers' = AllWorkers
  /\ UNCHANGED <<sentMsgID, clock, calls, hist, pc, cur, req, alert, loc, code,
                 pre, ops, sops, server, trace, lockVars, callVars>>

\* The process starts with an environment and a file system.
InitMain ==
  /\ InitHandler({}) /\ secret = <<>> /\ kind = NoStore
  /\ input \in { [env |-> e, fs |-> f] : e \in Environments, f \in FileSystems }
  /\ output = NotCalled

NextMain == LoadCall \/ mainServe

SpecMain == InitMain /\ [][NextMain]_vars

\* main has built the handler and serves.
Serves == workers # {}

\* C35 as the specification states it: the handler is given the Redis store
\* when the configuration holds a Redis address and the in-memory store when
\* it holds none.
C35_AsStated ==
  Serves =>
    kind = IF output.cfg.RedisAddr # <<>> THEN "redis" ELSE "memory"

\* ------------------------------------------------------ formatter layout
\* The place of each line in the message.
LineRank ==
  [l \in {"Status", "Trigger", "Host", "Severity", "Details", "Event ID",
          "Start Time", "End Time"} |->
     CASE l = "Status" -> 0 [] l = "Trigger" -> 1 [] l = "Host" -> 2
       [] l = "Severity" -> 3 [] l = "Details" -> 4 [] l = "Event ID" -> 5
       [] l = "Start Time" -> 6 [] l = "End Time" -> 7]

\* The lines of the message follow the fixed order, none twice.
InOrder ==
  \A i \in 1..Len(output) : \A j \in 1..Len(output) :
    i < j => LineRank[output[i].label] < LineRank[output[j].label]

\* The time lines a message ends with.
TimeLines ==
  IF input.alert.Status # StatusResolved THEN <<"Start Time">>
  ELSE IF input.start # <<>> THEN <<"Start Time", "End Time">>
  ELSE <<"End Time">>

\* C36: the status line, with the status glyph and the escaped status, is
\* the first line of every message; each of the Trigger, Host, Severity,
\* Details and Event ID lines is present exactly when the value it shows is
\* non-empty, Details showing the preserved details of a RESOLVED alert when
\* there are any; the lines come in the order Trigger, Host, Severity,
\* Details, Event ID and then the time lines.
C36_Layout ==
  output # NotCalled =>
    /\ output[1] = Line(statusEmoji(input.alert.Status), "Status",
                        escapeHTML(input.alert.Status))
    /\ \A f \in TextFields \ {"Status"} :
         LinesOf(output, FieldLabel[f]) # {} <=> FieldText(input, f) # <<>>
    /\ InOrder
    /\ \A i \in 1..Len(TimeLines) :
         output[Len(output) - Len(TimeLines) + i].label = TimeLines[i]

\* The message of a RESOLVED alert that names a trigger and an event but no
\* host and no details of its own, with details and a start time preserved.
C36_Witness ==
  /\ output # NotCalled
  /\ input.alert.Status = StatusResolved
  /\ input.alert.TriggerName # <<>> /\ input.alert.Host = <<>>
  /\ input.alert.Message = <<>> /\ input.orig # <<>> /\ input.start # <<>>
  /\ [i \in 1..Len(output) |-> output[i].label]
       = <<"Status", "Trigger", "Details", "Event ID", "Start Time", "End Time">>

====
